---------------------------- MODULE Spec2Model ----------------------------
(***************************************************************************)
(* Usage telemetry aggregation engine of claude-powerline-rust:            *)
(*   - DataAggregator (src/src/utils/data_aggregation.rs): parse the       *)
(*     discovered transcript files, merge, sort by timestamp, deduplicate; *)
(*   - PricingService (src/src/utils/pricing.rs): cost and token totals    *)
(*     over cumulative per-session counters;                               *)
(*   - BlockSegment (src/src/segments/block.rs): 5-hour session blocks     *)
(*     and the active block;                                               *)
(*   - log discovery and the today, active block and session views         *)
(*     (data_aggregation.rs, src/src/utils/claude.rs, src/src/segments);   *)
(*   - Cache (src/src/utils/cache.rs): the DashMap of entries with an      *)
(*     expiry time, with the locks of its shards and several callers;      *)
(*   - rate resolution (get_model_pricing) over the HashMap of rates,      *)
(*     whose iteration order differs from instance to instance;            *)
(*   - the legacy parser of claude.rs (memory-mapped and buffered path)    *)
(*     and the rayon workers of parse_files_parallel.                      *)
(*                                                                         *)
(* Timestamps are whole minutes (the code compares milliseconds; every     *)
(* duration it uses is a whole number of hours).  Costs are integers in    *)
(* units of 1/400,000,000 USD, so that every rate of the pricing table     *)
(* (USD per million tokens, times 400) is an integer and sums are exact.   *)
(* Token counters stay far below u32::MAX, so the u32 additions of the     *)
(* code are plain additions here.  The clock is read once per run: now is  *)
(* the value of every Utc::now() of one load.  Option<T> is a sequence:    *)
(* <<>> is None, <<v>> is Some(v).                                         *)
(***************************************************************************)
EXTENDS Integers, Sequences, FiniteSets, TLC

VARIABLES
    files,                  \* discovered transcript files, in discovery order
    time_filter_hours,      \* DataAggregator.time_filter_hours : Option<u32>
    now,                    \* the clock value Utc::now() returns
    all_entries,            \* parse_files_parallel's merged output
    entries,                \* the record stream handed to the consumers
    total_cost,             \* calculate_total_cost's result
    breakdown,              \* calculate_token_breakdown's result
    idx,                    \* identify_session_blocks: next entry of the for loop
    current_block_entries,  \* identify_session_blocks: the open block
    current_block_start,    \* identify_session_blocks: Option<DateTime>
    blocks,                 \* identify_session_blocks: the emitted blocks
    active,                 \* find_active_block's result: Option<block>
    pc,                     \* position in the pipeline
    weighted_tokens,        \* calculate_weighted_tokens's result
    claude_paths,           \* the root directories get_claude_paths returns
    view,                   \* the view that runs: "today", "block" or "session"
    outcome,                \* the Result of the load or view: "pending", "Ok", "Err"
    data,                   \* Cache.data: key -> Option<CacheEntry>
    guards,                 \* read references alive: <<thread, shard>>
    threads,                \* the callers of the cache and their positions
    completed,              \* history: per key, the value of the most recent
                            \* insert that completed, None after a removal
    iteration_order,        \* the order in which `for (key, pricing) in
                            \* &self.pricing_table` visits the keys
    finished                \* parse_files_parallel: the workers that have
                            \* finished, <<file index, entries>>, in the
                            \* order of their completion

\* the variables of the cache
cache_vars == <<data, guards, threads, completed>>

\* the variables of the pricing service
pricing_vars == <<iteration_order>>

\* the variables of the parse workers
worker_vars == <<finished>>

\* the variables of the views over the discovered log data
view_vars == <<weighted_tokens, claude_paths, view, outcome>>

vars == <<files, time_filter_hours, now, all_entries, entries, total_cost,
          breakdown, idx, current_block_entries, current_block_start, blocks,
          active, pc, view_vars, cache_vars, pricing_vars, worker_vars>>

---------------------------------------------------------------------------
(* Bounds of the model *)

\* total number of transcript lines over the discovered files
MaxLines == 3

\* last instant of the clock of the cache
MaxClock == 2
\* number of lines of the file that is stored under two paths
MaxCopyLines == 2
\* number of records handed to the pricing calculator
MaxEntries == 3
\* number of records with declared costs handed to the pricing calculator
MaxCostEntries == 2
\* number of records handed to the session block identifier
MaxBlockEntries == 3
\* number of records whose weighted tokens are computed
MaxWeightedEntries == 2
\* number of records priced with model ids that are not keys of the table
MaxRateEntries == 2
\* number of lines of the file the legacy parser reads
MaxLegacyLines == 3
\* total number of lines over the files the parse workers read
MaxWorkerLines == 2
\* total number of lines of the files that may fail to parse
MaxParseLines == 3
\* total number of lines of the transcript files the views discover
MaxViewLines == 2
\* last hour of the day in which block records are drawn
MaxHour == 6

---------------------------------------------------------------------------
(* Option<T> *)

None == <<>>
Some(v) == <<v>>
IsSome(o) == o # <<>>
Unwrap(o) == o[1]
UnwrapOr(o, d) == IF o = <<>> THEN d ELSE o[1]

Max(a, b) == IF a >= b THEN a ELSE b

\* u32::saturating_sub
SaturatingSub(a, b) == IF a >= b THEN a - b ELSE 0

\* all sequences over S of length at most n
SeqUpTo(S, n) == UNION {[1..k -> S] : k \in 0..n}

---------------------------------------------------------------------------
(* Transcript lines (decoded JSON objects) and parsed entries *)

\* UsageInfo: the four cumulative counters, each Option<u32>
Usage(i, o, cc, cr) ==
    [input_tokens |-> i, output_tokens |-> o,
     cache_creation_input_tokens |-> cc, cache_read_input_tokens |-> cr]

\* the "message" object of a line: MessageInfo {id, usage, model}
Message(id, usage, model) == [id |-> id, usage |-> usage, model |-> model]

\* Result<T>
Ok(v) == [ok |-> TRUE, value |-> v]
Err == [ok |-> FALSE, value |-> <<>>]

\* one JSONL line that holds a JSON object: the fields the parser reads.  A
\* timestamp of None stands for a field that is missing, is not a string or
\* is not an RFC 3339 date.
Line(ts, message, cost, requestId, sessionId) ==
    [text |-> "object", timestamp |-> ts, message |-> message, costUSD |-> cost,
     requestId |-> requestId, sessionId |-> sessionId]

\* a line of another kind of text: "blank" (empty after trim), "malformed"
\* (serde_json rejects it) or "invalid_utf8" (BufRead::lines cannot read it)
TextLine(kind) == [Line(None, None, None, None, None) EXCEPT !.text = kind]

\* a transcript file: its path, whether File::open succeeds, and its lines
File(path, opens, lines) == [path |-> path, opens |-> opens, lines |-> lines]

\* parse_message_info: id, model and usage are copied from the JSON object
ParseMessageInfo(message_value) ==
    Some(Message(message_value.id, message_value.usage, message_value.model))

\* a parser without time window
ParseJsonlLineUnfiltered(line, filter, clock) ==
    IF line.text # "object" \/ line.timestamp = None
    THEN None
    ELSE Some([timestamp   |-> Unwrap(line.timestamp),
               message     |-> IF IsSome(line.message)
                               THEN ParseMessageInfo(Unwrap(line.message))
                               ELSE None,
               cost_usd    |-> line.costUSD,
               source_file |-> None,
               raw         |-> [message_id |-> IF IsSome(line.message)
                                               THEN Unwrap(line.message).id
                                               ELSE None,
                                requestId  |-> line.requestId,
                                sessionId  |-> line.sessionId]])

\* parse_jsonl_line: None stands for both Ok(None) and Err(_), which the
\* caller treats alike (the line is skipped)
ParseJsonlLine(line, filter, clock) ==
    IF line.text # "object" \/ line.timestamp = None
    THEN None
    ELSE LET timestamp == Unwrap(line.timestamp) IN
         IF IsSome(filter) /\ timestamp < clock - Unwrap(filter) * 60
         THEN None
         ELSE Some([timestamp   |-> timestamp,
                    message     |-> IF IsSome(line.message)
                                    THEN ParseMessageInfo(Unwrap(line.message))
                                    ELSE None,
                    cost_usd    |-> line.costUSD,
                    source_file |-> None,
                    raw         |-> [message_id |-> IF IsSome(line.message)
                                                    THEN Unwrap(line.message).id
                                                    ELSE None,
                                     requestId  |-> line.requestId,
                                     sessionId  |-> line.sessionId]])

\* a line that cannot be read ends the file with the entries read so far
LineReadErrorKeeps(entries_so_far) == Ok(entries_so_far)

\* line.context("Failed to read line from transcript file")?: the error of
\* the line is the result of the file
LineReadError(entries_so_far) == Err

\* parse_transcript_file_streaming: the loop over the lines of the file
RECURSIVE ReadLines(_, _, _, _, _)
ReadLines(lines, source_file, filter, clock, entries_so_far) ==
    IF lines = <<>>
    THEN Ok(entries_so_far)
    ELSE LET line == Head(lines) IN
         IF line.text = "invalid_utf8"
         THEN LineReadError(entries_so_far)
         ELSE IF line.text = "blank"
         THEN ReadLines(Tail(lines), source_file, filter, clock, entries_so_far)
         ELSE LET parsed == ParseJsonlLine(line, filter, clock) IN
              IF IsSome(parsed)
              THEN ReadLines(Tail(lines), source_file, filter, clock,
                       Append(entries_so_far,
                              [Unwrap(parsed) EXCEPT !.source_file = Some(source_file)]))
              ELSE ReadLines(Tail(lines), source_file, filter, clock, entries_so_far)

\* parse_transcript_file_streaming: the entries of one file, in line order,
\* each tagged with the path of the file; Err when the file cannot be opened
\* or a line cannot be read
ParseTranscriptFileStreaming(file, filter, clock) ==
    IF ~file.opens
    THEN Err
    ELSE ReadLines(file.lines, file.path, filter, clock, <<>>)

\* parse_files_parallel: a file that fails gives no entries;
\* par_iter().flat_map().collect() keeps the order of the file list
RECURSIVE ParseFilesParallel(_, _, _)
ParseFilesParallel(file_paths, filter, clock) ==
    IF file_paths = <<>>
    THEN <<>>
    ELSE LET result == ParseTranscriptFileStreaming(Head(file_paths), filter, clock)
         IN  (IF result.ok THEN result.value ELSE <<>>)
             \o ParseFilesParallel(Tail(file_paths), filter, clock)

---------------------------------------------------------------------------
(* Sorting and deduplication *)

\* the position after the last element of the sorted sequence s whose
\* timestamp is <= t
RECURSIVE UpperBound(_, _)
UpperBound(s, t) ==
    IF s = <<>> \/ Head(s).timestamp > t THEN 0 ELSE 1 + UpperBound(Tail(s), t)

\* the position after the last element of the sorted sequence s whose
\* timestamp is < t
RECURSIVE LowerBound(_, _)
LowerBound(s, t) ==
    IF s = <<>> \/ Head(s).timestamp >= t THEN 0 ELSE 1 + LowerBound(Tail(s), t)

\* an unstable sort: e is inserted in front of the elements with its timestamp
InsertUnstable(s, e) ==
    LET k == LowerBound(s, e.timestamp)
    IN  SubSeq(s, 1, k) \o <<e>> \o SubSeq(s, k + 1, Len(s))

\* inserts e behind every element with a timestamp <= e.timestamp
InsertStable(s, e) ==
    LET k == UpperBound(s, e.timestamp)
    IN  SubSeq(s, 1, k) \o <<e>> \o SubSeq(s, k + 1, Len(s))

\* sort_by_key(|e| e.timestamp): a stable sort
RECURSIVE SortByTimestamp(_)
SortByTimestamp(s) ==
    IF s = <<>>
    THEN <<>>
    ELSE InsertStable(SortByTimestamp(SubSeq(s, 1, Len(s) - 1)), s[Len(s)])

\* a hash that stands in an empty string for a missing identifier
CreateUniqueHashDefaulting(entry) ==
    LET message_id ==
            IF IsSome(entry.message) /\ IsSome(Unwrap(entry.message).id)
            THEN Unwrap(entry.message).id
            ELSE entry.raw.message_id
        request_id == entry.raw.requestId
    IN  Some(UnwrapOr(message_id, "") \o ":" \o UnwrapOr(request_id, ""))

\* a hash that tells the copies of an event in different files apart
CreateUniqueHashPerFile(entry) ==
    LET message_id ==
            IF IsSome(entry.message) /\ IsSome(Unwrap(entry.message).id)
            THEN Unwrap(entry.message).id
            ELSE entry.raw.message_id
        request_id == entry.raw.requestId
    IN  IF message_id = None \/ request_id = None
        THEN None
        ELSE Some(UnwrapOr(entry.source_file, "") \o ":"
                  \o Unwrap(message_id) \o ":" \o Unwrap(request_id))

\* create_unique_hash: "messageId:requestId", None when either is missing
CreateUniqueHash(entry) ==
    LET message_id ==
            IF IsSome(entry.message) /\ IsSome(Unwrap(entry.message).id)
            THEN Unwrap(entry.message).id
            ELSE entry.raw.message_id
        request_id == entry.raw.requestId
    IN  IF message_id = None \/ request_id = None
        THEN None
        ELSE Some(Unwrap(message_id) \o ":" \o Unwrap(request_id))

\* the for loop of deduplicate_and_sort over the sorted entries
RECURSIVE DedupLoop(_, _)
DedupLoop(sorted, seen_hashes) ==
    IF sorted = <<>>
    THEN <<>>
    ELSE LET entry == Head(sorted)
             hash  == CreateUniqueHash(entry)
         IN  IF IsSome(hash)
             THEN IF Unwrap(hash) \notin seen_hashes
                  THEN <<entry>> \o DedupLoop(Tail(sorted), seen_hashes \cup {Unwrap(hash)})
                  ELSE DedupLoop(Tail(sorted), seen_hashes)
             ELSE <<entry>> \o DedupLoop(Tail(sorted), seen_hashes)

DeduplicateAndSort(es) == DedupLoop(SortByTimestamp(es), {})

---------------------------------------------------------------------------
(* Pricing and usage calculator *)

\* ModelPricing::new: rates in USD per million tokens, times 400
ModelPricing(input, output) ==
    [input          |-> input,
     output         |-> output,
     cache_write_5m |-> (input * 5) \div 4,
     cache_write_1h |-> input * 2,
     cache_read     |-> input \div 10]

\* PricingService::new: the pricing table
PricingTable ==
    [k \in {"claude-3-5-sonnet", "claude-3.5-sonnet", "claude-3-7-sonnet",
            "claude-sonnet-4", "claude-4-sonnet", "claude-sonnet-4-20250514",
            "claude-opus-4-1", "claude-opus-4-1-20250805",
            "claude-3-5-haiku", "claude-3.5-haiku-20241022",
            "claude-3-opus", "claude-3-opus-20240229",
            "claude-3-sonnet", "claude-3-haiku"} |->
        CASE k \in {"claude-opus-4-1", "claude-opus-4-1-20250805",
                    "claude-3-opus", "claude-3-opus-20240229"}
                 -> ModelPricing(6000, 30000)
          [] k \in {"claude-3-5-haiku", "claude-3.5-haiku-20241022"}
                 -> ModelPricing(320, 1600)
          [] k = "claude-3-haiku"
                 -> ModelPricing(100, 500)
          [] OTHER
                 -> ModelPricing(1200, 6000)]

\* the keys of the table in the order PricingService::new inserts them
PricingKeys ==
    <<"claude-3-5-sonnet", "claude-3.5-sonnet", "claude-3-7-sonnet",
      "claude-sonnet-4", "claude-4-sonnet", "claude-sonnet-4-20250514",
      "claude-opus-4-1", "claude-opus-4-1-20250805", "claude-3-5-haiku",
      "claude-3.5-haiku-20241022", "claude-3-opus", "claude-3-opus-20240229",
      "claude-3-sonnet", "claude-3-haiku">>

\* the characters of the model identifiers of this model (a Rust String is
\* its sequence of characters)
Chars ==
    [id \in {"claude-3-5-sonnet", "claude-3.5-sonnet", "claude-3-7-sonnet",
             "claude-sonnet-4", "claude-4-sonnet", "claude-sonnet-4-20250514",
             "claude-opus-4-1", "claude-opus-4-1-20250805", "claude-3-5-haiku",
             "claude-3.5-haiku-20241022", "claude-3-opus",
             "claude-3-opus-20240229", "claude-3-sonnet", "claude-3-haiku",
             "Claude-3-OPUS", "opsu", "", "haiku", "my_haiku", "gpt-4"} |->
        CASE id = "claude-3-5-sonnet"
                 -> <<"c", "l", "a", "u", "d", "e", "-", "3", "-", "5", "-",
                      "s", "o", "n", "n", "e", "t">>
          [] id = "claude-3.5-sonnet"
                 -> <<"c", "l", "a", "u", "d", "e", "-", "3", ".", "5", "-",
                      "s", "o", "n", "n", "e", "t">>
          [] id = "claude-3-7-sonnet"
                 -> <<"c", "l", "a", "u", "d", "e", "-", "3", "-", "7", "-",
                      "s", "o", "n", "n", "e", "t">>
          [] id = "claude-sonnet-4"
                 -> <<"c", "l", "a", "u", "d", "e", "-", "s", "o", "n", "n",
                      "e", "t", "-", "4">>
          [] id = "claude-4-sonnet"
                 -> <<"c", "l", "a", "u", "d", "e", "-", "4", "-", "s", "o",
                      "n", "n", "e", "t">>
          [] id = "claude-sonnet-4-20250514"
                 -> <<"c", "l", "a", "u", "d", "e", "-", "s", "o", "n", "n",
                      "e", "t", "-", "4", "-", "2", "0", "2", "5", "0", "5",
                      "1", "4">>
          [] id = "claude-opus-4-1"
                 -> <<"c", "l", "a", "u", "d", "e", "-", "o", "p", "u", "s",
                      "-", "4", "-", "1">>
          [] id = "claude-opus-4-1-20250805"
                 -> <<"c", "l", "a", "u", "d", "e", "-", "o", "p", "u", "s",
                      "-", "4", "-", "1", "-", "2", "0", "2", "5", "0", "8",
                      "0", "5">>
          [] id = "claude-3-5-haiku"
                 -> <<"c", "l", "a", "u", "d", "e", "-", "3", "-", "5", "-",
                      "h", "a", "i", "k", "u">>
          [] id = "claude-3.5-haiku-20241022"
                 -> <<"c", "l", "a", "u", "d", "e", "-", "3", ".", "5", "-",
                      "h", "a", "i", "k", "u", "-", "2", "0", "2", "4", "1",
                      "0", "2", "2">>
          [] id = "claude-3-opus"
                 -> <<"c", "l", "a", "u", "d", "e", "-", "3", "-", "o", "p",
                      "u", "s">>
          [] id = "claude-3-opus-20240229"
                 -> <<"c", "l", "a", "u", "d", "e", "-", "3", "-", "o", "p",
                      "u", "s", "-", "2", "0", "2", "4", "0", "2", "2", "9">>
          [] id = "claude-3-sonnet"
                 -> <<"c", "l", "a", "u", "d", "e", "-", "3", "-", "s", "o",
                      "n", "n", "e", "t">>
          [] id = "claude-3-haiku"
                 -> <<"c", "l", "a", "u", "d", "e", "-", "3", "-", "h", "a",
                      "i", "k", "u">>
          [] id = "Claude-3-OPUS"
                 -> <<"C", "l", "a", "u", "d", "e", "-", "3", "-", "O", "P",
                      "U", "S">>
          [] id = "opsu"
                 -> <<"o", "p", "s", "u">>
          [] id = "haiku"
                 -> <<"h", "a", "i", "k", "u">>
          [] id = "my_haiku"
                 -> <<"m", "y", "_", "h", "a", "i", "k", "u">>
          [] id = "gpt-4"
                 -> <<"g", "p", "t", "-", "4">>
          [] OTHER
                 -> <<>>]

UpperCase == <<"A", "B", "C", "D", "E", "F", "G", "H", "I", "J", "K", "L", "M",
               "N", "O", "P", "Q", "R", "S", "T", "U", "V", "W", "X", "Y", "Z">>
LowerCase == <<"a", "b", "c", "d", "e", "f", "g", "h", "i", "j", "k", "l", "m",
               "n", "o", "p", "q", "r", "s", "t", "u", "v", "w", "x", "y", "z">>

\* str::to_lowercase on ASCII characters
ToLowercase(chars) ==
    [i \in DOMAIN chars |->
        IF \E k \in DOMAIN UpperCase : UpperCase[k] = chars[i]
        THEN LowerCase[CHOOSE k \in DOMAIN UpperCase : UpperCase[k] = chars[i]]
        ELSE chars[i]]

\* str::contains: pattern occurs in chars as a contiguous run
Contains(chars, pattern) ==
    \E i \in 0..(Len(chars) - Len(pattern)) :
        SubSeq(chars, i + 1, i + Len(pattern)) = pattern

\* normalize_model_name: lowercase, without "@", "-", "_" and "."
NormalizeModelName(chars) ==
    SelectSeq(ToLowercase(chars), LAMBDA c : c \notin {"@", "-", "_", "."})

\* get_model_pricing: the for loop over the table, in the order given; the
\* first key that contains the normalized name or is contained in it
RECURSIVE FuzzyMatch(_, _)
FuzzyMatch(order, normalized_model) ==
    IF order = <<>>
    THEN None
    ELSE IF \/ Contains(Chars[Head(order)], normalized_model)
            \/ Contains(normalized_model, Chars[Head(order)])
         THEN Some(Head(order))
         ELSE FuzzyMatch(Tail(order), normalized_model)

\* a fallback that knows no family
FamilyFallbackSonnet(model_id) == "claude-3-5-sonnet"

\* get_model_pricing: the fallback on the model family
FamilyFallback(model_id) ==
    IF Contains(ToLowercase(Chars[model_id]), <<"o", "p", "u", "s">>)
    THEN "claude-3-opus"
    ELSE IF Contains(ToLowercase(Chars[model_id]), <<"h", "a", "i", "k", "u">>)
    THEN "claude-3-5-haiku"
    ELSE "claude-3-5-sonnet"

\* get_model_pricing on a table that iterates in the given order: the key
\* whose pricing is returned
ResolveKey(order, model_id) ==
    IF model_id \in DOMAIN PricingTable
    THEN model_id
    ELSE LET found == FuzzyMatch(order, NormalizeModelName(Chars[model_id])) IN
         IF IsSome(found) THEN Unwrap(found) ELSE FamilyFallback(model_id)

\* get_model_pricing (it returns Ok in every branch)
GetModelPricing(model_id) == PricingTable[ResolveKey(iteration_order, model_id)]

\* one session for all entries
SessionKeyShared(entry) == "unknown"

\* the session an entry is accounted to: the source file, else the
\* sessionId of the raw JSON, else "unknown"
SessionKey(entry) ==
    IF IsSome(entry.source_file) THEN Unwrap(entry.source_file)
    ELSE IF IsSome(entry.raw.sessionId) THEN Unwrap(entry.raw.sessionId)
    ELSE "unknown"

\* the sessions map: the keys, and the entries of one key in input order
SessionKeysOf(es) == {SessionKey(es[i]) : i \in DOMAIN es}
SessionEntries(es, key) == SelectSeq(es, LAMBDA e : SessionKey(e) = key)

\* the counters of a usage, a missing counter read as 0
CountersNow(usage) ==
    Usage(UnwrapOr(usage.input_tokens, 0),
          UnwrapOr(usage.output_tokens, 0),
          UnwrapOr(usage.cache_creation_input_tokens, 0),
          UnwrapOr(usage.cache_read_input_tokens, 0))

\* a delta that is the cumulative counter itself
RawDelta(counters, prev) == counters

\* the new tokens since the previous record with usage of the session
Delta(counters, prev) ==
    Usage(SaturatingSub(counters.input_tokens, prev.input_tokens),
          SaturatingSub(counters.output_tokens, prev.output_tokens),
          SaturatingSub(counters.cache_creation_input_tokens,
                        prev.cache_creation_input_tokens),
          SaturatingSub(counters.cache_read_input_tokens,
                        prev.cache_read_input_tokens))

\* previous counters that restart at zero on a record without usage
ResetPrevious(prev) == Usage(0, 0, 0, 0)

\* the else branch of "if let Some(usage)": the previous counters are kept
KeepPrevious(prev) == prev

\* a delta without model id priced at the sonnet rates
NoModelCostSonnet(delta) ==
    delta.input_tokens * 1200 + delta.output_tokens * 6000
    + delta.cache_creation_input_tokens * 1500 + delta.cache_read_input_tokens * 120

\* "if let Some(model)" without else: a delta without model id adds nothing
NoModelCost(delta) == 0

\* calculate_total_cost: the loop over the sorted entries of one session
RECURSIVE CostLoop(_, _, _)
CostLoop(sorted_entries, prev, cost) ==
    IF sorted_entries = <<>>
    THEN cost
    ELSE LET entry == Head(sorted_entries) IN
         IF IsSome(entry.message) /\ IsSome(Unwrap(entry.message).usage)
         THEN LET message  == Unwrap(entry.message)
                  counters == CountersNow(Unwrap(message.usage))
                  delta    == Delta(counters, prev)
                  pricing  == GetModelPricing(Unwrap(message.model))
                  added    ==
                      IF IsSome(message.model)
                      THEN delta.input_tokens * pricing.input
                           + delta.output_tokens * pricing.output
                           + delta.cache_creation_input_tokens * pricing.cache_write_5m
                           + delta.cache_read_input_tokens * pricing.cache_read
                      ELSE NoModelCost(delta)
              IN  CostLoop(Tail(sorted_entries), counters, cost + added)
         ELSE CostLoop(Tail(sorted_entries), KeepPrevious(prev), cost)

\* calculate_total_cost: the loop over the sessions
RECURSIVE CostSessions(_, _, _)
CostSessions(es, keys, cost) ==
    IF keys = {}
    THEN cost
    ELSE LET key == CHOOSE k \in keys : TRUE IN
         CostSessions(es, keys \ {key},
                      CostLoop(SortByTimestamp(SessionEntries(es, key)),
                               Usage(0, 0, 0, 0), cost))

\* calculate_total_cost
CalculateTotalCost(es) == CostSessions(es, SessionKeysOf(es), 0)

\* calculate_token_breakdown: the loop over the sorted entries of one session
RECURSIVE TokenLoop(_, _, _)
TokenLoop(sorted_entries, prev, acc) ==
    IF sorted_entries = <<>>
    THEN acc
    ELSE LET entry == Head(sorted_entries) IN
         IF IsSome(entry.message) /\ IsSome(Unwrap(entry.message).usage)
         THEN LET counters == CountersNow(Unwrap(Unwrap(entry.message).usage))
                  delta    == Delta(counters, prev)
              IN  TokenLoop(Tail(sorted_entries), counters,
                      Usage(acc.input_tokens + delta.input_tokens,
                            acc.output_tokens + delta.output_tokens,
                            acc.cache_creation_input_tokens
                                + delta.cache_creation_input_tokens,
                            acc.cache_read_input_tokens
                                + delta.cache_read_input_tokens))
         ELSE TokenLoop(Tail(sorted_entries), KeepPrevious(prev), acc)

\* calculate_token_breakdown: the loop over the sessions
RECURSIVE TokenSessions(_, _, _)
TokenSessions(es, keys, acc) ==
    IF keys = {}
    THEN acc
    ELSE LET key == CHOOSE k \in keys : TRUE IN
         TokenSessions(es, keys \ {key},
                       TokenLoop(SortByTimestamp(SessionEntries(es, key)),
                                 Usage(0, 0, 0, 0), acc))

\* calculate_token_breakdown
CalculateTokenBreakdown(es) ==
    TokenSessions(es, SessionKeysOf(es), Usage(0, 0, 0, 0))

\* a weight that compares the identifier as it is written
GetModelRateLimitWeightCaseSensitive(model_id) ==
    IF Contains(Chars[model_id], <<"o", "p", "u", "s">>) THEN 5 ELSE 1

\* get_model_rate_limit_weight
GetModelRateLimitWeight(model_id) ==
    IF Contains(ToLowercase(Chars[model_id]), <<"o", "p", "u", "s">>) THEN 5 ELSE 1

\* calculate_weighted_tokens: the loop over the sorted entries of one session
RECURSIVE WeightedLoop(_, _, _)
WeightedLoop(sorted_entries, prev, total_weighted) ==
    IF sorted_entries = <<>>
    THEN total_weighted
    ELSE LET entry == Head(sorted_entries) IN
         IF IsSome(entry.message) /\ IsSome(Unwrap(entry.message).usage)
         THEN LET message     == Unwrap(entry.message)
                  counters    == CountersNow(Unwrap(message.usage))
                  delta       == Delta(counters, prev)
                  delta_total == delta.input_tokens + delta.output_tokens
                                 + delta.cache_creation_input_tokens
                                 + delta.cache_read_input_tokens
                  weight      == IF IsSome(message.model)
                                 THEN GetModelRateLimitWeight(Unwrap(message.model))
                                 ELSE 1
              IN  WeightedLoop(Tail(sorted_entries), counters,
                               total_weighted + delta_total * weight)
         ELSE WeightedLoop(Tail(sorted_entries), KeepPrevious(prev), total_weighted)

\* calculate_weighted_tokens: the loop over the sessions
RECURSIVE WeightedSessions(_, _, _)
WeightedSessions(es, keys, total_weighted) ==
    IF keys = {}
    THEN total_weighted
    ELSE LET key == CHOOSE k \in keys : TRUE IN
         WeightedSessions(es, keys \ {key},
                          WeightedLoop(SortByTimestamp(SessionEntries(es, key)),
                                       Usage(0, 0, 0, 0), total_weighted))

\* calculate_weighted_tokens
CalculateWeightedTokens(es) == WeightedSessions(es, SessionKeysOf(es), 0)

---------------------------------------------------------------------------
(* Inputs of the aggregation pipeline *)

Paths == <<"a.jsonl", "b.jsonl">>

\* message and request identifiers; ':' is an ordinary character of a JSON
\* string
Ids == {"m", "m:m"}

\* (message id, request id) of a line: each present or absent
IdPairs ==
    ({<<Some(m), Some(r)>> : m \in Ids, r \in Ids} \ {<<Some("m:m"), Some("m:m")>>})
    \cup {<<None, Some("m")>>, <<Some("m"), None>>}

AggTimes == {0, 1}

AggLines ==
    {Line(Some(t), IF IsSome(p[1]) THEN Some(Message(p[1], None, None)) ELSE None,
          None, p[2], None) : t \in AggTimes, p \in IdPairs}

\* at most n lines, split over the two files
AggFiles(n) ==
    {<<File(Paths[1], TRUE, SubSeq(ls, 1, k)),
       File(Paths[2], TRUE, SubSeq(ls, k + 1, Len(ls)))>> :
        <<ls, k>> \in {x \in SeqUpTo(AggLines, n) \X (0..n) :
                        x[2] <= Len(x[1])}}

NoBreakdown == Usage(0, 0, 0, 0)

Idle ==
    /\ total_cost = 0
    /\ breakdown = NoBreakdown
    /\ idx = 1
    /\ current_block_entries = <<>>
    /\ current_block_start = None
    /\ blocks = <<>>
    /\ active = None
    /\ weighted_tokens = 0
    /\ iteration_order = PricingKeys
    /\ finished = <<>>

\* no view runs: the record stream is handed over directly
NoView ==
    /\ claude_paths = <<>>
    /\ view = "none"
    /\ outcome = "pending"

\* the keys and the callers of the cache
CacheKeys == {"k1", "k2"}
Threads == {1, 2}

\* a caller that is in no operation; result is what the operation it
\* returned from last returned (None as well for one that returns nothing)
IdleThread == [pc |-> "idle", op |-> "none", key |-> "k1", value |-> "v1",
               instant |-> 0, shard |-> 0, result |-> None]

\* Cache::new: an empty map, no guard held, and callers yet to call
NoCache ==
    /\ data = [k \in CacheKeys |-> None]
    /\ guards = {}
    /\ threads = [t \in Threads |-> IdleThread]
    /\ completed = [k \in CacheKeys |-> None]

Init ==
    /\ files \in AggFiles(MaxLines)
    /\ time_filter_hours \in {None, Some(1)}
    /\ now = 61
    /\ all_entries = <<>>
    /\ entries = <<>>
    /\ pc = "start"
    /\ Idle
    /\ NoView
    /\ NoCache

\* load_all_entries on a list of discovered files
LoadAllEntries(file_paths, filter, clock) ==
    DeduplicateAndSort(ParseFilesParallel(file_paths, filter, clock))

\* load_all_entries: parse the discovered files, merge, sort, deduplicate
CallLoadAllEntries ==
    /\ pc = "start"
    /\ all_entries' = ParseFilesParallel(files, time_filter_hours, now)
    /\ entries' = LoadAllEntries(files, time_filter_hours, now)
    /\ outcome' = "Ok"
    /\ pc' = "loaded"
    /\ UNCHANGED <<files, time_filter_hours, now, total_cost, breakdown, idx,
                   current_block_entries, current_block_start, blocks, active>>
    /\ UNCHANGED <<weighted_tokens, claude_paths, view, cache_vars, pricing_vars, worker_vars>>

Next == CallLoadAllEntries

Spec == Init /\ [][Next]_vars

---------------------------------------------------------------------------
(* The parse workers: one unit of work per file, finishing in any order *)

\* the closure of flat_map: the entries of one file, none if it fails
ParseWorker(path, filter, clock) ==
    LET result == ParseTranscriptFileStreaming(path, filter, clock)
    IN  IF result.ok THEN result.value ELSE <<>>

\* a merge that takes the results as the workers deliver them
RECURSIVE CollectAsCompleted(_, _)
CollectAsCompleted(done, n) ==
    IF done = <<>> THEN <<>>
    ELSE Head(done)[2] \o CollectAsCompleted(Tail(done), n)

\* collect() of the parallel iterator into a Vec: the results of the items
\* 1..n in the order of the items, whatever the order of completion
RECURSIVE Collect(_, _)
Collect(done, n) ==
    IF n = 0 THEN <<>>
    ELSE Collect(done, n - 1)
         \o done[CHOOSE k \in DOMAIN done : done[k][1] = n][2]

InitWorkers ==
    /\ files \in AggFiles(MaxWorkerLines)
    /\ time_filter_hours \in {None, Some(1)}
    /\ now = 61
    /\ all_entries = <<>>
    /\ entries = <<>>
    /\ pc = "parse"
    /\ Idle
    /\ NoView
    /\ NoCache

\* the worker of file i finishes
WorkerFinishes(i) ==
    /\ pc = "parse"
    /\ i \in DOMAIN files
    /\ \A k \in DOMAIN finished : finished[k][1] # i
    /\ finished' = Append(finished, <<i, ParseWorker(files[i], time_filter_hours, now)>>)
    /\ UNCHANGED <<files, time_filter_hours, now, all_entries, entries, total_cost,
                   breakdown, idx, current_block_entries, current_block_start,
                   blocks, active, pc, view_vars, cache_vars, pricing_vars>>

\* all workers have finished: parse_files_parallel collects, and
\* load_all_entries sorts and deduplicates
CollectAndDeduplicate ==
    /\ pc = "parse"
    /\ Len(finished) = Len(files)
    /\ all_entries' = Collect(finished, Len(files))
    /\ entries' = DeduplicateAndSort(Collect(finished, Len(files)))
    /\ outcome' = "Ok"
    /\ pc' = "loaded"
    /\ UNCHANGED <<files, time_filter_hours, now, total_cost, breakdown, idx,
                   current_block_entries, current_block_start, blocks, active>>
    /\ UNCHANGED <<weighted_tokens, claude_paths, view, cache_vars, pricing_vars,
                   finished>>

NextWorkers ==
    \/ \E i \in DOMAIN Paths : WorkerFinishes(i)
    \/ CollectAndDeduplicate

SpecWorkers == InitWorkers /\ [][NextWorkers]_vars

---------------------------------------------------------------------------
(* Files with lines and whole files that fail *)

\* the lines of a file: blank, malformed and unreadable text, an object
\* without timestamp, and objects at minute 0 (outside a window of one hour
\* at minute 61), 1 and 2
ParseLines ==
    {TextLine("blank"), TextLine("malformed"), TextLine("invalid_utf8"),
     Line(None, Some(Message(Some("m"), None, None)), None, Some("m"), None),
     Line(Some(0), Some(Message(Some("m"), None, None)), None, Some("m"), None),
     Line(Some(1), Some(Message(Some("m"), None, None)), None, Some("m:m"), None),
     Line(Some(2), None, None, None, None)}

\* at most n lines, split over the two files, each of which opens or not
ParseFiles(n) ==
    {<<File(Paths[1], x[3], SubSeq(x[1], 1, x[2])),
       File(Paths[2], x[4], SubSeq(x[1], x[2] + 1, Len(x[1])))>> :
        x \in {y \in SeqUpTo(ParseLines, n) \X (0..n) \X BOOLEAN \X BOOLEAN :
                   y[2] <= Len(y[1])}}

InitParse ==
    /\ files \in ParseFiles(MaxParseLines)
    /\ time_filter_hours \in {None, Some(1)}
    /\ now = 61
    /\ all_entries = <<>>
    /\ entries = <<>>
    /\ pc = "start"
    /\ Idle
    /\ NoView
    /\ NoCache

SpecParse == InitParse /\ [][Next]_vars

---------------------------------------------------------------------------
(* The legacy parser: one file, memory-mapped or read into a string *)

\* a transcript file with its size: large when metadata.len() is at least
\* 1024 * 1024
SizedFile(path, opens, large, lines) ==
    [path |-> path, opens |-> opens, large |-> large, lines |-> lines]

\* a conversion that leaves out what is not UTF-8
FromUtf8Lossy(lines) == Ok(SelectSeq(lines, LAMBDA l : l.text # "invalid_utf8"))

\* std::str::from_utf8 on the mapped bytes: an error when some byte
\* sequence of the file is not UTF-8
FromUtf8(lines) ==
    IF \E i \in DOMAIN lines : lines[i].text = "invalid_utf8" THEN Err ELSE Ok(lines)

\* fs::read_to_string: an error when the file cannot be opened or its
\* content is not UTF-8
ReadToString(file) ==
    IF ~file.opens THEN Err
    ELSE IF \E i \in DOMAIN file.lines : file.lines[i].text = "invalid_utf8" THEN Err
    ELSE Ok(file.lines)

\* parse_jsonl_line of the legacy parser: None stands for the Err(_) the
\* caller skips; the message is the JSON object deserialized as MessageInfo
LegacyParseJsonlLine(line) ==
    IF line.text # "object" \/ line.timestamp = None
    THEN None
    ELSE Some([timestamp   |-> Unwrap(line.timestamp),
               message     |-> IF IsSome(line.message)
                               THEN Some(Message(Unwrap(line.message).id,
                                                 Unwrap(line.message).usage,
                                                 Unwrap(line.message).model))
                               ELSE None,
               cost_usd    |-> line.costUSD,
               source_file |-> None,
               raw         |-> [message_id |-> IF IsSome(line.message)
                                               THEN Unwrap(line.message).id
                                               ELSE None,
                                requestId  |-> line.requestId,
                                sessionId  |-> line.sessionId]])

\* parse_jsonl_content: the loop over content.lines()
RECURSIVE ParseJsonlContent(_)
ParseJsonlContent(content) ==
    IF content = <<>>
    THEN <<>>
    ELSE LET line == Head(content) IN
         IF line.text = "blank"
         THEN ParseJsonlContent(Tail(content))
         ELSE LET parsed == LegacyParseJsonlLine(line) IN
              (IF IsSome(parsed) THEN <<Unwrap(parsed)>> ELSE <<>>)
              \o ParseJsonlContent(Tail(content))

\* parse_jsonl_file_regular
ParseJsonlFileRegular(file) ==
    LET content == ReadToString(file) IN
    IF ~content.ok THEN Err ELSE Ok(ParseJsonlContent(content.value))

\* parse_jsonl_file_mmap after the test of the size: the file, which is
\* open, is mapped and its bytes are converted and parsed
ParseMapped(file) ==
    LET content == FromUtf8(file.lines) IN
    IF ~content.ok THEN Err ELSE Ok(ParseJsonlContent(content.value))

\* parse_jsonl_file_mmap
ParseJsonlFileMmap(file) ==
    IF ~file.opens THEN Err
    ELSE IF ~file.large THEN ParseJsonlFileRegular(file)
    ELSE ParseMapped(file)

InitLegacy ==
    /\ \E lines \in SeqUpTo(ParseLines, MaxLegacyLines),
          opens \in BOOLEAN, large \in BOOLEAN :
            files = <<SizedFile(Paths[1], opens, large, lines)>>
    /\ time_filter_hours = None
    /\ now = 61
    /\ all_entries = <<>>
    /\ entries = <<>>
    /\ pc = "legacy"
    /\ Idle
    /\ NoView
    /\ NoCache

\* parse_file_cached on a path that is not in the cache: the file is parsed
CallParseJsonlFileMmap ==
    /\ pc = "legacy"
    /\ LET result == ParseJsonlFileMmap(files[1]) IN
       /\ entries' = result.value
       /\ outcome' = IF result.ok THEN "Ok" ELSE "Err"
    /\ pc' = "parsed"
    /\ UNCHANGED <<files, time_filter_hours, now, all_entries, total_cost, breakdown,
                   idx, current_block_entries, current_block_start, blocks, active>>
    /\ UNCHANGED <<weighted_tokens, claude_paths, view, cache_vars, pricing_vars, worker_vars>>

NextLegacy == CallParseJsonlFileMmap

SpecLegacy == InitLegacy /\ [][NextLegacy]_vars

---------------------------------------------------------------------------
(* Log discovery *)

\* a root directory that exists: the state of its "projects" directory
\* ("missing", "unreadable" or "listed") and the project directories in it
Root(projects, dirs) == [projects |-> projects, dirs |-> dirs]

\* a project directory: whether it can be read, and its entries.  A
\* directory that cannot be read can neither be listed nor searched.
ProjectDir(readable, listing) == [readable |-> readable, listing |-> listing]

\* an entry of a project directory: a file, whether its name ends with
\* ".jsonl", and its modification time
DirEntry(file, jsonl, modified) == [file |-> file, jsonl |-> jsonl, modified |-> modified]

\* get_claude_paths: the roots that exist; an error when there is none
GetClaudePaths(roots) == IF roots = <<>> THEN Err ELSE Ok(roots)

\* discover_all_projects: the project directories of the roots, in order; an
\* error of the walk of a "projects" directory is returned with `?`
RECURSIVE DiscoverAllProjects(_)
DiscoverAllProjects(roots) ==
    IF roots = <<>>
    THEN Ok(<<>>)
    ELSE LET root == Head(roots) IN
         IF root.projects = "missing"
         THEN DiscoverAllProjects(Tail(roots))
         ELSE IF root.projects = "unreadable"
         THEN Err
         ELSE LET rest == DiscoverAllProjects(Tail(roots)) IN
              IF rest.ok THEN Ok(root.dirs \o rest.value) ELSE Err

\* discover_transcript_files: the walk of one project directory
RECURSIVE WalkProject(_, _)
WalkProject(listing, cutoff_time) ==
    IF listing = <<>>
    THEN <<>>
    ELSE LET entry == Head(listing) IN
         IF ~entry.jsonl
         THEN WalkProject(Tail(listing), cutoff_time)
         ELSE IF IsSome(cutoff_time) /\ entry.modified < Unwrap(cutoff_time)
         THEN WalkProject(Tail(listing), cutoff_time)
         ELSE <<entry.file>> \o WalkProject(Tail(listing), cutoff_time)

\* discover_transcript_files: an error of the walk of a project directory
\* is skipped
RECURSIVE DiscoverTranscriptFiles(_, _)
DiscoverTranscriptFiles(project_paths, cutoff_time) ==
    IF project_paths = <<>>
    THEN <<>>
    ELSE (IF Head(project_paths).readable
          THEN WalkProject(Head(project_paths).listing, cutoff_time)
          ELSE <<>>)
         \o DiscoverTranscriptFiles(Tail(project_paths), cutoff_time)

\* load_all_entries, phases 1 and 2: the transcript files, or an error
Discover(roots, filter, clock) ==
    LET claude_paths_result == GetClaudePaths(roots) IN
    IF ~claude_paths_result.ok
    THEN Err
    ELSE LET project_paths == DiscoverAllProjects(claude_paths_result.value) IN
         IF ~project_paths.ok
         THEN Err
         ELSE Ok(DiscoverTranscriptFiles(
                     project_paths.value,
                     IF IsSome(filter) THEN Some(clock - 60 * Unwrap(filter))
                     ELSE None))

\* minutes of a day
Day == 24 * 60

\* Utc::now().date_naive().and_hms_opt(0, 0, 0)
TodayStart(clock) == clock - (clock % Day)

\* load_today_entries: the filter on the loaded entries
TodayFilter(es, clock) == SelectSeq(es, LAMBDA e : e.timestamp >= TodayStart(clock))

\* find_project_paths: read_dir of every "projects" directory that exists;
\* an error is returned with `?`
RECURSIVE FindProjectPaths(_)
FindProjectPaths(roots) ==
    IF roots = <<>>
    THEN Ok(<<>>)
    ELSE LET root == Head(roots) IN
         IF root.projects = "missing"
         THEN FindProjectPaths(Tail(roots))
         ELSE IF root.projects = "unreadable"
         THEN Err
         ELSE LET rest == FindProjectPaths(Tail(roots)) IN
              IF rest.ok THEN Ok(root.dirs \o rest.value) ELSE Err

\* format!("{}.jsonl", session_id)
TranscriptName(session_id) == session_id \o ".jsonl"

\* find_transcript_file: the loop over the project paths
RECURSIVE FirstTranscript(_, _)
FirstTranscript(project_paths, name) ==
    IF project_paths = <<>>
    THEN None
    ELSE LET dir   == Head(project_paths)
             found == IF dir.readable
                      THEN SelectSeq(dir.listing, LAMBDA e : e.file.path = name)
                      ELSE <<>>
         IN  IF found # <<>>
             THEN Some(found[1].file)
             ELSE FirstTranscript(Tail(project_paths), name)

\* find_transcript_file
FindTranscriptFile(roots, session_id) ==
    LET claude_paths_result == GetClaudePaths(roots) IN
    IF ~claude_paths_result.ok
    THEN Err
    ELSE LET project_paths == FindProjectPaths(claude_paths_result.value) IN
         IF ~project_paths.ok
         THEN Err
         ELSE Ok(FirstTranscript(project_paths.value, TranscriptName(session_id)))

---------------------------------------------------------------------------
(* The pricing calculator on a record stream *)

\* a ParsedEntry built directly (the parsers build the same shape)
Entry(ts, message, cost, source_file, sessionId) ==
    [timestamp   |-> ts,
     message     |-> message,
     cost_usd    |-> cost,
     source_file |-> source_file,
     raw         |-> [message_id |-> IF IsSome(message) THEN Unwrap(message).id
                                     ELSE None,
                      requestId  |-> None,
                      sessionId  |-> sessionId]]

\* where a record comes from: a transcript file (the aggregator's tag), or
\* no tag and the sessionId of the JSON
SessionTags == {<<Some("a.jsonl"), None>>, <<None, Some("s1")>>}

PricingTimes == {1, 2}

\* the message of a record: none, one without usage, or one with cumulative
\* counters (a counter may be missing) and a model
PricingMessages ==
    {None,
     Some(Message(None, None, Some("claude-3-5-sonnet"))),
     Some(Message(None, Some(Usage(Some(1000), Some(500), None, None)),
                  Some("claude-3-opus"))),
     Some(Message(None, Some(Usage(Some(1500), Some(750), Some(200), Some(10))),
                  Some("claude-3-opus"))),
     Some(Message(None, Some(Usage(Some(500), Some(900), Some(100), None)),
                  Some("claude-3-5-sonnet")))}

PricingEntries ==
    {Entry(t, m, None, tag[1], tag[2]) :
        t \in PricingTimes, m \in PricingMessages, tag \in SessionTags}

InitPricing ==
    /\ entries \in SeqUpTo(PricingEntries, MaxEntries)
    /\ files = <<>>
    /\ time_filter_hours = None
    /\ now = 61
    /\ all_entries = <<>>
    /\ pc = "loaded"
    /\ Idle
    /\ NoView
    /\ NoCache

\* declared costs: 0.15 USD and 0.225 USD
DeclaredCosts == {None, Some(60000000), Some(90000000)}

DeclaredCostMessages ==
    {Some(Message(None, Some(Usage(Some(1000), Some(500), None, None)), Some(m))) :
        m \in {"claude-3-opus", "claude-3-5-sonnet"}}
    \cup
    {Some(Message(None, Some(Usage(Some(1500), Some(750), None, None)), Some(m))) :
        m \in {"claude-3-opus", "claude-3-5-sonnet"}}

DeclaredCostEntries ==
    {Entry(t, m, c, tag[1], tag[2]) :
        t \in PricingTimes, m \in DeclaredCostMessages, c \in DeclaredCosts,
        tag \in SessionTags}

InitDeclaredCost ==
    /\ entries \in SeqUpTo(DeclaredCostEntries, MaxCostEntries)
    /\ files = <<>>
    /\ time_filter_hours = None
    /\ now = 61
    /\ all_entries = <<>>
    /\ pc = "loaded"
    /\ Idle
    /\ NoView
    /\ NoCache

\* a consumer (calculate_block_info, get_today_info, get_session_info)
\* computes the total cost of the stream ...
CallCalculateTotalCost ==
    /\ pc = "loaded"
    /\ total_cost' = CalculateTotalCost(entries)
    /\ pc' = "cost"
    /\ UNCHANGED <<files, time_filter_hours, now, all_entries, entries, breakdown,
                   idx, current_block_entries, current_block_start, blocks, active>>
    /\ UNCHANGED <<view_vars, cache_vars, pricing_vars, worker_vars>>

\* ... and then its token breakdown
CallCalculateTokenBreakdown ==
    /\ pc = "cost"
    /\ breakdown' = CalculateTokenBreakdown(entries)
    /\ pc' = "tokens"
    /\ UNCHANGED <<files, time_filter_hours, now, all_entries, entries, total_cost,
                   idx, current_block_entries, current_block_start, blocks, active>>
    /\ UNCHANGED <<view_vars, cache_vars, pricing_vars, worker_vars>>

\* ... and its weighted tokens (calculate_block_info), or the weighted
\* tokens alone
CallCalculateWeightedTokens ==
    /\ pc \in {"loaded", "tokens"}
    /\ weighted_tokens' = CalculateWeightedTokens(entries)
    /\ pc' = "weighted"
    /\ UNCHANGED <<files, time_filter_hours, now, all_entries, entries, total_cost,
                   breakdown, idx, current_block_entries, current_block_start,
                   blocks, active>>
    /\ UNCHANGED <<claude_paths, view, outcome, cache_vars, pricing_vars, worker_vars>>

NextPricing ==
    \/ CallCalculateTotalCost
    \/ CallCalculateTokenBreakdown
    \/ CallCalculateWeightedTokens

SpecPricing == InitPricing /\ [][NextPricing]_vars

SpecDeclaredCost == InitDeclaredCost /\ [][NextPricing]_vars

\* model identifiers as the logs may spell them, and no model
WeightedModels ==
    {None, Some("claude-3-opus"), Some("claude-3-5-sonnet"), Some("Claude-3-OPUS"),
     Some("opsu")}

\* cumulative counters totalling 1,500 and 15,000 tokens
WeightedUsages ==
    {Usage(Some(1000), Some(500), None, None),
     Usage(Some(10000), Some(4000), Some(900), Some(100))}

WeightedMessages ==
    {Some(Message(None, Some(u), m)) : u \in WeightedUsages, m \in WeightedModels}
    \cup {Some(Message(None, None, Some("claude-3-opus")))}

WeightedEntries ==
    {Entry(t, m, None, tag[1], tag[2]) :
        t \in PricingTimes, m \in WeightedMessages, tag \in SessionTags}

InitWeighted ==
    /\ entries \in SeqUpTo(WeightedEntries, MaxWeightedEntries)
    /\ files = <<>>
    /\ time_filter_hours = None
    /\ now = 61
    /\ all_entries = <<>>
    /\ pc = "loaded"
    /\ Idle
    /\ NoView
    /\ NoCache

NextWeighted == CallCalculateWeightedTokens

SpecWeighted == InitWeighted /\ [][NextWeighted]_vars

---------------------------------------------------------------------------
(* Rate resolution: model ids that are no keys of the table, and records
   without model id *)

\* the sequence s started at its element n + 1
Rotate(s, n) == SubSeq(s, n + 1, Len(s)) \o SubSeq(s, 1, n)

Reverse(s) == [i \in DOMAIN s |-> s[Len(s) + 1 - i]]

\* iteration orders of the HashMap of a PricingService (the order depends on
\* the random hasher state of the instance): every key comes first in one of
\* them, and every pair of keys in both orders
TableOrders ==
    {Rotate(PricingKeys, n) : n \in 0..(Len(PricingKeys) - 1)}
    \cup {Rotate(Reverse(PricingKeys), n) : n \in 0..(Len(PricingKeys) - 1)}

\* model ids: a key of the table, names only the fuzzy step matches, names
\* of the three families that no key matches, and an unknown family
RateModelIds ==
    {"claude-3-haiku", "haiku", "", "Claude-3-OPUS", "my_haiku", "gpt-4"}

RateUsages ==
    {Usage(Some(1000), Some(500), None, None),
     Usage(Some(1500), Some(750), Some(200), Some(10))}

\* records of one session with usage, with a model id or without
RateEntries ==
    {Entry(1, Some(Message(None, Some(u), m)), None, Some("a.jsonl"), None) :
        u \in RateUsages, m \in {None} \cup {Some(id) : id \in RateModelIds}}

InitRates ==
    /\ entries \in SeqUpTo(RateEntries, MaxRateEntries)
    /\ iteration_order \in TableOrders
    /\ files = <<>>
    /\ time_filter_hours = None
    /\ now = 61
    /\ all_entries = <<>>
    /\ pc = "loaded"
    /\ total_cost = 0
    /\ breakdown = NoBreakdown
    /\ idx = 1
    /\ current_block_entries = <<>>
    /\ current_block_start = None
    /\ blocks = <<>>
    /\ active = None
    /\ weighted_tokens = 0
    /\ finished = <<>>
    /\ NoView
    /\ NoCache

NextRates ==
    \/ CallCalculateTotalCost
    \/ CallCalculateTokenBreakdown

SpecRates == InitRates /\ [][NextRates]_vars

---------------------------------------------------------------------------
(* One transcript file stored under two paths *)

CopyUsages ==
    {None,
     Some(Usage(Some(1000), Some(500), None, None)),
     Some(Usage(Some(1500), Some(750), None, None))}

CopyLines ==
    {Line(Some(t),
          IF p[1] = None /\ u = None THEN None
          ELSE Some(Message(p[1], u, IF IsSome(u) THEN Some("claude-3-opus") ELSE None)),
          None, p[2], None) :
        t \in AggTimes, p \in IdPairs, u \in CopyUsages}

\* the file under its path and under the second path; the path found first
\* is Paths[first]
CopyFiles(ls, first) ==
    <<File(Paths[first], TRUE, ls), File(Paths[3 - first], TRUE, ls)>>

InitCopy ==
    /\ \E ls \in SeqUpTo(CopyLines, MaxCopyLines), first \in {1, 2} :
           files = CopyFiles(ls, first)
    /\ time_filter_hours \in {None, Some(1)}
    /\ now = 61
    /\ all_entries = <<>>
    /\ entries = <<>>
    /\ pc = "start"
    /\ Idle
    /\ NoView
    /\ NoCache

NextCopy ==
    \/ CallLoadAllEntries
    \/ CallCalculateTotalCost
    \/ CallCalculateTokenBreakdown

SpecCopy == InitCopy /\ [][NextCopy]_vars

---------------------------------------------------------------------------
(* Session block identifier *)

\* session_duration_ms: 5 hours
SessionDuration == 5 * 60

\* floor_to_hour: minute, second and nanosecond set to 0
FloorToHour(timestamp) == timestamp - (timestamp % 60)

\* a boundary test that also cuts at exactly five hours
NeedsNewBlockInclusive(time_since_block_start, time_since_last_entry) ==
    \/ time_since_block_start >= SessionDuration
    \/ time_since_last_entry >= SessionDuration

\* a boundary test whose gap part also cuts at exactly five hours
NeedsNewBlockGapInclusive(time_since_block_start, time_since_last_entry) ==
    \/ time_since_block_start > SessionDuration
    \/ time_since_last_entry >= SessionDuration

\* the test that starts a new block
NeedsNewBlock(time_since_block_start, time_since_last_entry) ==
    \/ time_since_block_start > SessionDuration
    \/ time_since_last_entry > SessionDuration

\* identify_session_blocks: one iteration of the loop over the entries
IdentifyStep ==
    /\ pc = "identify"
    /\ idx <= Len(entries)
    /\ LET entry      == entries[idx]
           entry_time == entry.timestamp
       IN  \/ /\ current_block_start = None
              /\ current_block_start' = Some(FloorToHour(entry_time))
              /\ current_block_entries' = Append(current_block_entries, entry)
              /\ blocks' = blocks
           \/ /\ IsSome(current_block_start)
              /\ LET block_start             == Unwrap(current_block_start)
                     time_since_block_start == entry_time - block_start
                     time_since_last_entry  ==
                         IF current_block_entries # <<>>
                         THEN entry_time
                              - current_block_entries[Len(current_block_entries)].timestamp
                         ELSE 0
                 IN  IF NeedsNewBlock(time_since_block_start, time_since_last_entry)
                     THEN /\ blocks' = IF current_block_entries # <<>>
                                       THEN Append(blocks, current_block_entries)
                                       ELSE blocks
                          /\ current_block_start' = Some(FloorToHour(entry_time))
                          /\ current_block_entries' = <<entry>>
                     ELSE /\ current_block_entries' = Append(current_block_entries, entry)
                          /\ UNCHANGED <<blocks, current_block_start>>
    /\ idx' = idx + 1
    /\ UNCHANGED <<files, time_filter_hours, now, all_entries, entries, total_cost,
                   breakdown, active, pc>>
    /\ UNCHANGED <<view_vars, cache_vars, pricing_vars, worker_vars>>

\* an end of the loop that leaves the open block behind
IdentifyFinishDropsLast ==
    /\ pc = "identify"
    /\ idx > Len(entries)
    /\ pc' = "identified"
    /\ UNCHANGED <<files, time_filter_hours, now, all_entries, entries, total_cost,
                   breakdown, idx, current_block_entries, current_block_start,
                   blocks, active>>
    /\ UNCHANGED <<view_vars, cache_vars, pricing_vars, worker_vars>>

\* identify_session_blocks: after the loop, the open block is emitted
IdentifyFinish ==
    /\ pc = "identify"
    /\ idx > Len(entries)
    /\ blocks' = IF current_block_entries # <<>>
                 THEN Append(blocks, current_block_entries)
                 ELSE blocks
    /\ pc' = "identified"
    /\ UNCHANGED <<files, time_filter_hours, now, all_entries, entries, total_cost,
                   breakdown, idx, current_block_entries, current_block_start, active>>
    /\ UNCHANGED <<view_vars, cache_vars, pricing_vars, worker_vars>>

\* a test that looks at the last entry only
IsActiveByLastEntry(block, clock) ==
    clock - block[Len(block)].timestamp < SessionDuration

\* find_active_block: is_active of one block
IsActive(block, clock) ==
    LET block_start              == FloorToHour(block[1].timestamp)
        block_end_time           == block_start + SessionDuration
        actual_end_time          == block[Len(block)].timestamp
        time_since_last_entry_ms == clock - actual_end_time
    IN  time_since_last_entry_ms < SessionDuration /\ clock < block_end_time

\* a search that takes the blocks oldest first
RECURSIVE FindActiveBlockOldestFirst(_, _)
FindActiveBlockOldestFirst(bs, clock) ==
    IF bs = <<>>
    THEN None
    ELSE LET block == bs[1] IN
         IF block # <<>> /\ IsActive(block, clock)
         THEN Some(block)
         ELSE FindActiveBlockOldestFirst(Tail(bs), clock)

\* find_active_block: the blocks in reverse order, the first active one
RECURSIVE FindActiveBlock(_, _)
FindActiveBlock(bs, clock) ==
    IF bs = <<>>
    THEN None
    ELSE LET block == bs[Len(bs)] IN
         IF block # <<>> /\ IsActive(block, clock)
         THEN Some(block)
         ELSE FindActiveBlock(SubSeq(bs, 1, Len(bs) - 1), clock)

\* the minutes of the hour at which records are drawn, and the clock is read
RecordMinutes == {0, 1, 59}
ClockMinutes == {0, 10}

BlockTimes == {h * 60 + m : h \in 0..MaxHour, m \in RecordMinutes}
ClockTimes == {h * 60 + m : h \in 0..(MaxHour + 5), m \in ClockMinutes}

\* the record streams of at most n records the aggregator hands over: sorted
\* by timestamp
BlockStreams(n) ==
    {[i \in DOMAIN ts |-> Entry(ts[i], None, None, Some("a.jsonl"), None)] :
        ts \in {x \in SeqUpTo(BlockTimes, n) :
                   \A i, j \in DOMAIN x : i < j => x[i] <= x[j]}}

InitBlocks ==
    /\ entries \in BlockStreams(MaxBlockEntries)
    /\ files = <<>>
    /\ time_filter_hours = Some(24)
    /\ now = 0
    /\ all_entries = <<>>
    /\ pc = "identify"
    /\ Idle
    /\ NoView
    /\ NoCache

\* get_active_block_info: find_active_block reads the clock
CallFindActiveBlock ==
    /\ pc = "identified"
    /\ now' \in ClockTimes
    /\ active' = FindActiveBlock(blocks, now')
    /\ pc' = "active"
    /\ UNCHANGED <<files, time_filter_hours, all_entries, entries, total_cost,
                   breakdown, idx, current_block_entries, current_block_start, blocks>>
    /\ UNCHANGED <<view_vars, cache_vars, pricing_vars, worker_vars>>

NextBlocks == IdentifyStep \/ IdentifyFinish \/ CallFindActiveBlock

SpecBlocks == InitBlocks /\ [][NextBlocks]_vars

---------------------------------------------------------------------------
(* The views: today, active block, current session *)

\* the clock of the views: 10:00 on the third day
ViewNow == 2 * Day + 600

\* the cumulative counters of the records of the views
ViewMessage(id) ==
    Some(Message(Some(id), Some(Usage(Some(1000), Some(500), None, None)),
                 Some("claude-3-opus")))

\* a record of today, 01:00
TodayLine == Line(Some(2 * Day + 60), ViewMessage("m"), None, Some("m"), None)

\* the lines of the transcript files: malformed and unreadable text, and
\* records of yesterday 20:00 (inside the 24 hour window), of today and of
\* tomorrow 01:00
ViewLines ==
    {TextLine("malformed"), TextLine("invalid_utf8"),
     Line(Some(Day + 1200), ViewMessage("y"), None, Some("m"), None),
     TodayLine,
     Line(Some(3 * Day + 60), ViewMessage("t"), None, Some("m"), None)}

ProjectsStates == {"missing", "unreadable", "listed"}

\* modification times of a file: two days ago, and a minute ago
ModifiedTimes == {600, ViewNow - 1}

\* two roots with one project directory each: "a.jsonl" in the first,
\* "b.jsonl" and a file of another kind in the second
ViewRoots(a_lines, b_lines, projects1, projects2, readable1, opens_a, modified_b) ==
    <<Root(projects1,
           <<ProjectDir(readable1,
                        <<DirEntry(File(Paths[1], opens_a, a_lines), TRUE, ViewNow - 1)>>)>>),
      Root(projects2,
           <<ProjectDir(TRUE,
                        <<DirEntry(File(Paths[2], TRUE, b_lines), TRUE, modified_b),
                          DirEntry(File("notes.txt", TRUE, <<TodayLine>>), FALSE,
                                   ViewNow - 1)>>)>>)>>

\* CLAUDE_SESSION_ID
SessionId == "a"

\* the time window of a view: DataAggregator::new().with_time_filter(24)
\* for today and the active block, DataAggregator::new() for the session
ViewFilter(v) == IF v = "session" THEN None ELSE Some(24)

InitViews ==
    /\ \/ claude_paths = <<>>
       \/ \E ls \in SeqUpTo(ViewLines, MaxViewLines), k \in 0..MaxViewLines,
             projects1 \in ProjectsStates, projects2 \in ProjectsStates,
             readable1 \in BOOLEAN, opens_a \in BOOLEAN,
             modified_b \in ModifiedTimes :
               /\ k <= Len(ls)
               /\ claude_paths =
                      ViewRoots(SubSeq(ls, 1, k), SubSeq(ls, k + 1, Len(ls)),
                                projects1, projects2, readable1, opens_a, modified_b)
    /\ view \in {"today", "block", "session"}
    /\ time_filter_hours = ViewFilter(view)
    /\ outcome = "pending"
    /\ now = ViewNow
    /\ files = <<>>
    /\ all_entries = <<>>
    /\ entries = <<>>
    /\ pc = "view"
    /\ Idle
    /\ NoCache

\* get_today_info up to the check of entries.is_empty(): load_today_entries
CallLoadTodayEntries ==
    /\ pc = "view"
    /\ view = "today"
    /\ LET discovered == Discover(claude_paths, time_filter_hours, now) IN
       IF ~discovered.ok
       THEN /\ outcome' = "Err"
            /\ pc' = "done"
            /\ UNCHANGED <<files, all_entries, entries>>
       ELSE /\ files' = discovered.value
            /\ all_entries' = ParseFilesParallel(discovered.value, time_filter_hours, now)
            /\ entries' = TodayFilter(
                              LoadAllEntries(discovered.value, time_filter_hours, now),
                              now)
            /\ outcome' = "Ok"
            /\ pc' = IF entries' = <<>> THEN "done" ELSE "loaded"
    /\ UNCHANGED <<time_filter_hours, now, total_cost, breakdown, idx,
                   current_block_entries, current_block_start, blocks, active>>
    /\ UNCHANGED <<weighted_tokens, claude_paths, view, cache_vars, pricing_vars, worker_vars>>

\* get_active_block_info up to the check of entries.is_empty():
\* load_all_entries
CallLoadBlockEntries ==
    /\ pc = "view"
    /\ view = "block"
    /\ LET discovered == Discover(claude_paths, time_filter_hours, now) IN
       IF ~discovered.ok
       THEN /\ outcome' = "Err"
            /\ pc' = "done"
            /\ UNCHANGED <<files, all_entries, entries>>
       ELSE /\ files' = discovered.value
            /\ all_entries' = ParseFilesParallel(discovered.value, time_filter_hours, now)
            /\ entries' = LoadAllEntries(discovered.value, time_filter_hours, now)
            /\ outcome' = "Ok"
            /\ pc' = IF entries' = <<>> THEN "done" ELSE "identify"
    /\ UNCHANGED <<time_filter_hours, now, total_cost, breakdown, idx,
                   current_block_entries, current_block_start, blocks, active>>
    /\ UNCHANGED <<weighted_tokens, claude_paths, view, cache_vars, pricing_vars, worker_vars>>

\* get_session_info up to calculate_session_info: find_transcript_file and
\* load_session_entries
CallLoadSessionEntries ==
    /\ pc = "view"
    /\ view = "session"
    /\ LET found == FindTranscriptFile(claude_paths, SessionId) IN
       IF ~found.ok
       THEN /\ outcome' = "Err"
            /\ pc' = "done"
            /\ UNCHANGED <<files, all_entries, entries>>
       ELSE IF found.value = None
       THEN /\ outcome' = "Ok"
            /\ pc' = "done"
            /\ UNCHANGED <<files, all_entries, entries>>
       ELSE LET transcript_path == Unwrap(found.value)
                loaded == ParseTranscriptFileStreaming(transcript_path,
                                                       time_filter_hours, now)
            IN  /\ files' = <<transcript_path>>
                /\ all_entries' = loaded.value
                /\ entries' = loaded.value
                /\ outcome' = IF loaded.ok THEN "Ok" ELSE "Err"
                /\ pc' = IF loaded.ok /\ loaded.value # <<>> THEN "loaded" ELSE "done"
    /\ UNCHANGED <<time_filter_hours, now, total_cost, breakdown, idx,
                   current_block_entries, current_block_start, blocks, active>>
    /\ UNCHANGED <<weighted_tokens, claude_paths, view, cache_vars, pricing_vars, worker_vars>>

\* the views: the load, then the totals of today and of the session (the
\* active block view goes on with identify_session_blocks)
NextViews ==
    \/ CallLoadTodayEntries
    \/ CallLoadBlockEntries
    \/ CallLoadSessionEntries
    \/ CallCalculateTotalCost
    \/ CallCalculateTokenBreakdown

SpecViews == InitViews /\ [][NextViews]_vars

---------------------------------------------------------------------------
(* The cache: a DashMap of entries with an expiry time, shared by threads *)

\* the values stored, and the time to live given to insert_with_ttl
CacheValues == {"v1", "v2"}
Ttls == {0}

\* Cache::new(default_ttl)
DefaultTtl == 1

\* the shards of the map, each under its own reader-writer lock, and the
\* shard a key hashes to
Shards == {1, 2}
DetermineShard(k) == IF k = "k1" THEN 1 ELSE 2

\* CacheEntry
CacheEntry(value, expires_at) == [value |-> value, expires_at |-> expires_at]

\* DashMap::insert under the exclusive lock of the shard, as a mistaken
\* variant that keeps an entry that is there already
InsertIfAbsent(map, key, entry) ==
    IF map[key] = None THEN [map EXCEPT ![key] = Some(entry)] ELSE map

\* DashMap::insert under the exclusive lock of the shard: the entry replaces
\* the one of the key
Insert(map, key, entry) == [map EXCEPT ![key] = Some(entry)]

\* the caller t after its operation returned r
Returned(t, r) == [IdleThread EXCEPT !.result = r]

\* the clock (Instant::now) advances
Tick ==
    /\ now < MaxClock
    /\ now' = now + 1
    /\ UNCHANGED <<files, time_filter_hours, all_entries, entries, total_cost,
                   breakdown, idx, current_block_entries, current_block_start,
                   blocks, active, pc, view_vars, cache_vars, pricing_vars, worker_vars>>

\* what the cache operations leave alone
CacheFrame ==
    UNCHANGED <<files, time_filter_hours, now, all_entries, entries, total_cost,
                breakdown, idx, current_block_entries, current_block_start,
                blocks, active, pc, view_vars, pricing_vars, worker_vars>>

\* a thread calls Cache::get
CallGet(t) ==
    /\ threads[t].pc = "idle"
    /\ \E k \in CacheKeys :
           threads' = [threads EXCEPT ![t] =
                          [IdleThread EXCEPT !.pc = "get", !.op = "get", !.key = k]]
    /\ UNCHANGED <<data, guards, completed>>
    /\ CacheFrame

\* Cache::get, `let entry = self.data.get(key)?`: under the shared lock of
\* the shard, the lookup; an entry found is held as a read reference that
\* keeps the shared lock until it is dropped
DataGet(t) ==
    /\ threads[t].pc = "get"
    /\ IF data[threads[t].key] = None
       THEN /\ threads' = [threads EXCEPT ![t] = Returned(t, None)]
            /\ UNCHANGED guards
       ELSE /\ guards' = guards \cup {<<t, DetermineShard(threads[t].key)>>}
            /\ threads' = [threads EXCEPT ![t].pc = "check"]
    /\ UNCHANGED <<data, completed>>
    /\ CacheFrame

\* Cache::get, `if Instant::now() > entry.expires_at`: an unexpired entry
\* is cloned and returned, and the read reference dropped at the end of
\* the function; for an expired entry the function goes on to
\* self.data.remove(key) with the read reference still alive
GetCheck(t) ==
    /\ threads[t].pc = "check"
    /\ LET entry == Unwrap(data[threads[t].key]) IN
       IF now > entry.expires_at
       THEN /\ threads' = [threads EXCEPT ![t].pc = "write"]
            /\ UNCHANGED guards
       ELSE /\ threads' = [threads EXCEPT ![t] = Returned(t, Some(entry.value))]
            /\ guards' = guards \ {<<t, DetermineShard(threads[t].key)>>}
    /\ UNCHANGED <<data, completed>>
    /\ CacheFrame

\* Cache::insert_with_ttl, `let expires_at = Instant::now() + ttl`: the
\* caller on its way to self.data.insert
InsertWithTtl(key, value, ttl) ==
    [IdleThread EXCEPT !.pc = "write", !.op = "insert_with_ttl",
                       !.key = key, !.value = value, !.instant = now + ttl]

\* a thread calls Cache::insert: insert_with_ttl with the default
CallInsert(t) ==
    /\ threads[t].pc = "idle"
    /\ \E k \in CacheKeys, v \in CacheValues :
           threads' = [threads EXCEPT ![t] = InsertWithTtl(k, v, DefaultTtl)]
    /\ UNCHANGED <<data, guards, completed>>
    /\ CacheFrame

\* a thread calls Cache::insert_with_ttl
CallInsertWithTtl(t) ==
    /\ threads[t].pc = "idle"
    /\ \E k \in CacheKeys, v \in CacheValues, ttl \in Ttls :
           threads' = [threads EXCEPT ![t] = InsertWithTtl(k, v, ttl)]
    /\ UNCHANGED <<data, guards, completed>>
    /\ CacheFrame

\* a thread calls Cache::remove
CallRemove(t) ==
    /\ threads[t].pc = "idle"
    /\ \E k \in CacheKeys :
           threads' = [threads EXCEPT ![t] =
                          [IdleThread EXCEPT !.pc = "write", !.op = "remove", !.key = k]]
    /\ UNCHANGED <<data, guards, completed>>
    /\ CacheFrame

\* a thread calls Cache::clear_expired, `let now = Instant::now()`; retain
\* visits the shards in order
CallClearExpired(t) ==
    /\ threads[t].pc = "idle"
    /\ threads' = [threads EXCEPT ![t] =
                      [IdleThread EXCEPT !.pc = "write", !.op = "clear_expired",
                                         !.instant = now, !.shard = 1]]
    /\ UNCHANGED <<data, guards, completed>>
    /\ CacheFrame

\* the shard an operation locks exclusively next
ShardOf(thread) ==
    IF thread.op = "clear_expired" THEN thread.shard ELSE DetermineShard(thread.key)

\* DashMap::insert, DashMap::remove and DashMap::retain: the exclusive lock
\* of a shard, granted when no read reference into the shard is alive (the
\* caller's own included), and the change made under it.  The remove of
\* Cache::get returns None and then drops the read reference of the get.
ShardWrite(t) ==
    LET thread == threads[t]
        shard  == ShardOf(thread)
    IN  /\ thread.pc = "write"
        /\ \A g \in guards : g[2] # shard
        /\ IF thread.op = "insert_with_ttl"
           THEN /\ data' = Insert(data, thread.key,
                                  CacheEntry(thread.value, thread.instant))
                /\ completed' = [completed EXCEPT ![thread.key] = Some(thread.value)]
                /\ threads' = [threads EXCEPT ![t] = Returned(t, None)]
                /\ UNCHANGED guards
           ELSE IF thread.op = "remove"
           THEN /\ data' = [data EXCEPT ![thread.key] = None]
                /\ completed' = [completed EXCEPT ![thread.key] = None]
                /\ threads' = [threads EXCEPT ![t] =
                                  Returned(t, IF data[thread.key] = None THEN None
                                              ELSE Some(Unwrap(data[thread.key]).value))]
                /\ UNCHANGED guards
           ELSE IF thread.op = "get"
           THEN /\ data' = [data EXCEPT ![thread.key] = None]
                /\ completed' = [completed EXCEPT ![thread.key] = None]
                /\ threads' = [threads EXCEPT ![t] = Returned(t, None)]
                /\ guards' = guards \ {<<t, shard>>}
           ELSE /\ data' = [k \in CacheKeys |->
                               IF /\ DetermineShard(k) = shard
                                  /\ data[k] # None
                                  /\ ~(thread.instant <= Unwrap(data[k]).expires_at)
                               THEN None
                               ELSE data[k]]
                /\ completed' = [k \in CacheKeys |->
                                    IF data'[k] = None THEN None ELSE completed[k]]
                /\ threads' = [threads EXCEPT ![t] =
                                  IF shard + 1 \in Shards
                                  THEN [thread EXCEPT !.shard = shard + 1]
                                  ELSE Returned(t, None)]
                /\ UNCHANGED guards
        /\ CacheFrame

InitCache ==
    /\ files = <<>>
    /\ time_filter_hours = None
    /\ now = 0
    /\ all_entries = <<>>
    /\ entries = <<>>
    /\ pc = "cache"
    /\ Idle
    /\ NoView
    /\ NoCache

NextCache ==
    \/ \E t \in Threads : CallGet(t)
    \/ \E t \in Threads : DataGet(t)
    \/ \E t \in Threads : GetCheck(t)
    \/ \E t \in Threads : CallInsert(t)
    \/ \E t \in Threads : CallInsertWithTtl(t)
    \/ \E t \in Threads : CallRemove(t)
    \/ \E t \in Threads : CallClearExpired(t)
    \/ \E t \in Threads : ShardWrite(t)
    \/ Tick

\* every thread goes on running: a step of an operation that stays possible
\* is taken, and a thread that waits for the lock of a shard gets it if the
\* shard is free again and again
CacheFairness ==
    \A t \in Threads :
        /\ WF_vars(DataGet(t))
        /\ WF_vars(GetCheck(t))
        /\ SF_vars(ShardWrite(t))

SpecCache == InitCache /\ [][NextCache]_vars /\ CacheFairness

---------------------------------------------------------------------------
(* Reference notions the properties are stated with *)

\* number of occurrences of e in the sequence s
Count(s, e) == Cardinality({i \in DOMAIN s : s[i] = e})

\* s[i] comes before s[j] in timestamp order, ties by position
Before(s, i, j) ==
    \/ s[i].timestamp < s[j].timestamp
    \/ s[i].timestamp = s[j].timestamp /\ i < j

\* the stable timestamp order of s: element i goes to the position that
\* counts the elements before it
StableOrder(s) ==
    [r \in 1..Len(s) |->
        s[CHOOSE i \in 1..Len(s) :
              Cardinality({j \in 1..Len(s) : Before(s, j, i)}) = r - 1]]

\* a is a subsequence of b (same elements, same relative order)
RECURSIVE IsSubsequence(_, _)
IsSubsequence(a, b) ==
    IF a = <<>> THEN TRUE
    ELSE IF b = <<>> THEN FALSE
    ELSE IF Head(a) = Head(b) THEN IsSubsequence(Tail(a), Tail(b))
    ELSE IsSubsequence(a, Tail(b))

\* the message id of an entry: the typed field, else the raw JSON field
MessageIdOf(e) ==
    IF IsSome(e.message) /\ IsSome(Unwrap(e.message).id)
    THEN Unwrap(e.message).id
    ELSE e.raw.message_id

\* the dedup key (message_id, request_id) of an entry that has both
HasDedupKey(e) == IsSome(MessageIdOf(e)) /\ IsSome(e.raw.requestId)
DedupKey(e) == <<Unwrap(MessageIdOf(e)), Unwrap(e.raw.requestId)>>

\* the positions of s that hold the key k
WithKey(s, k) == {i \in DOMAIN s : HasDedupKey(s[i]) /\ DedupKey(s[i]) = k}

Min(S) == CHOOSE x \in S : \A y \in S : x <= y

---------------------------------------------------------------------------
(* Properties of the aggregation pipeline *)

\* C1: after load_all_entries, every dedup key (message_id, request_id) of
\* the merged input has exactly one record in the output, and that record is
\* the first one with the key in stable timestamp order.
C1_OneSurvivorPerKey ==
    pc = "loaded" =>
        LET sorted == StableOrder(all_entries) IN
        \A i \in DOMAIN sorted :
            HasDedupKey(sorted[i]) =>
                LET k == DedupKey(sorted[i]) IN
                /\ Cardinality(WithKey(entries, k)) = 1
                /\ \A j \in WithKey(entries, k) :
                       entries[j] = sorted[Min(WithKey(sorted, k))]

\* C27: deduplication discards a record only for an earlier record with the
\* same message_id and the same request_id: of two records of the merged
\* input that differ in either identifier, each has a record with its key
\* (message_id, request_id) in the output, whatever characters the
\* identifiers contain.
C27_DistinctKeysSurvive ==
    pc = "loaded" =>
        \A i, j \in DOMAIN all_entries :
            (/\ HasDedupKey(all_entries[i])
             /\ HasDedupKey(all_entries[j])
             /\ DedupKey(all_entries[i]) # DedupKey(all_entries[j]))
                => /\ WithKey(entries, DedupKey(all_entries[i])) # {}
                   /\ WithKey(entries, DedupKey(all_entries[j])) # {}

\* C9: a record that lacks the message id or the request id occurs in the
\* output of deduplicate_and_sort as often as in the merged input.
C9_KeylessRecordsKept ==
    pc = "loaded" =>
        \A i \in DOMAIN all_entries :
            ~HasDedupKey(all_entries[i]) =>
                Count(entries, all_entries[i]) = Count(all_entries, all_entries[i])

\* C9 witness: a keyless record occurs twice in the merged input, next to a
\* record that has a key, and twice in the output.
C9_Witness ==
    /\ pc = "loaded"
    /\ \E i \in DOMAIN all_entries : HasDedupKey(all_entries[i])
    /\ \E i \in DOMAIN all_entries :
           /\ ~HasDedupKey(all_entries[i])
           /\ Count(all_entries, all_entries[i]) = 2
           /\ Count(entries, all_entries[i]) = 2

\* C10: the output of load_all_entries is ordered by timestamp ascending and
\* records with equal timestamps keep the relative order of the merged input:
\* the output is a subsequence of the stable timestamp order of the input.
C10_SortedStable ==
    pc = "loaded" =>
        /\ \A i, j \in DOMAIN entries :
               i < j => entries[i].timestamp <= entries[j].timestamp
        /\ IsSubsequence(entries, StableOrder(all_entries))

\* C10 witness: the merged input is out of timestamp order and holds two
\* different records with the same timestamp that both survive.
C10_Witness ==
    /\ pc = "loaded"
    /\ \E i, j \in DOMAIN all_entries :
           i < j /\ all_entries[i].timestamp > all_entries[j].timestamp
    /\ \E i, j \in DOMAIN entries :
           i < j /\ entries[i].timestamp = entries[j].timestamp
                 /\ entries[i] # entries[j]

\* the parse of a file fails: it cannot be opened or a line cannot be read
ParseFails(file) ==
    \/ ~file.opens
    \/ \E i \in DOMAIN file.lines : file.lines[i].text = "invalid_utf8"

\* C13: per-file failures are isolated: whichever files fail to parse,
\* load_all_entries returns Ok, no record comes from a failing file, and the
\* result is what the files that do not fail produce alone.
C13_FileFailuresIsolated ==
    pc = "loaded" =>
        /\ outcome = "Ok"
        /\ \A i \in DOMAIN entries : \A f \in DOMAIN files :
               ParseFails(files[f]) => entries[i].source_file # Some(files[f].path)
        /\ entries = LoadAllEntries(SelectSeq(files, LAMBDA f : ~ParseFails(f)),
                                    time_filter_hours, now)

\* C13 witness: the first file has a line that is read before the line that
\* cannot be read, the second file gives a record.
C13_Witness ==
    /\ pc = "loaded"
    /\ files[1].opens
    /\ Len(files[1].lines) = 2
    /\ files[1].lines[1].text = "object" /\ files[1].lines[1].timestamp = Some(1)
    /\ files[1].lines[2].text = "invalid_utf8"
    /\ Len(entries) = 1
    /\ entries[1].source_file = Some(files[2].path)

\* the record of a line that holds an object with a timestamp
RecordOfLine(line, path) ==
    [timestamp   |-> Unwrap(line.timestamp),
     message     |-> line.message,
     cost_usd    |-> line.costUSD,
     source_file |-> Some(path),
     raw         |-> [message_id |-> IF IsSome(line.message)
                                     THEN Unwrap(line.message).id ELSE None,
                      requestId  |-> line.requestId,
                      sessionId  |-> line.sessionId]]

\* the line decodes and has a parsable timestamp
Decodes(line) == line.text = "object" /\ IsSome(line.timestamp)

\* the timestamp lies in the time window of the aggregator, if it has one
InWindow(line) ==
    time_filter_hours = None
    \/ Unwrap(line.timestamp) >= now - 60 * Unwrap(time_filter_hours)

\* one record for every line of the file that decodes (and, if windowed,
\* lies in the time window), in line order
RECURSIVE RecordsOfLines(_, _, _)
RecordsOfLines(lines, path, windowed) ==
    IF lines = <<>> THEN <<>>
    ELSE (IF Decodes(Head(lines)) /\ (windowed => InWindow(Head(lines)))
          THEN <<RecordOfLine(Head(lines), path)>> ELSE <<>>)
         \o RecordsOfLines(Tail(lines), path, windowed)

\* the records of the files that open, file after file
RECURSIVE RecordsOfFiles(_, _)
RecordsOfFiles(fs, windowed) ==
    IF fs = <<>> THEN <<>>
    ELSE (IF Head(fs).opens
          THEN RecordsOfLines(Head(fs).lines, Head(fs).path, windowed) ELSE <<>>)
         \o RecordsOfFiles(Tail(fs), windowed)

\* C14 as stated: for any content of a file that opens, the parser returns,
\* in line order, one record for every non-blank line that decodes and has a
\* parsable timestamp; any other line removes only itself.
C14_LinesSkipped ==
    pc = "loaded" => all_entries = RecordsOfFiles(files, FALSE)

\* C14 amended: the same for files whose lines can all be read as text, the
\* lines that decode with a timestamp outside the time window of the
\* aggregator being skipped as well.
C14_LinesSkippedInWindow ==
    (pc = "loaded"
     /\ \A f \in DOMAIN files : \A i \in DOMAIN files[f].lines :
            files[f].lines[i].text # "invalid_utf8")
        => all_entries = RecordsOfFiles(files, TRUE)

\* C14 witness: a file of a malformed line between two lines that decode,
\* read with a time window that holds both: two records, in line order.
C14_Witness ==
    /\ pc = "loaded"
    /\ IsSome(time_filter_hours)
    /\ files[1].opens
    /\ Len(files[1].lines) = 3
    /\ files[1].lines[1].timestamp = Some(2)
    /\ files[1].lines[2].text = "malformed"
    /\ files[1].lines[3].timestamp = Some(1)
    /\ Len(all_entries) = 2
    /\ all_entries[1].timestamp = 2 /\ all_entries[2].timestamp = 1

---------------------------------------------------------------------------
(* Properties of the parse workers *)

\* C25: the record stream of load_all_entries does not depend on the order
\* in which the parse workers finish: it is the stream of the files parsed
\* one after the other in the order of the file list, sorted and
\* deduplicated, so that of the copies of an event with the same timestamp
\* the one of the earlier file survives.
C25_SchedulingIndependent ==
    (pc = "loaded" /\ finished # <<>>) =>
        /\ all_entries = ParseFilesParallel(files, time_filter_hours, now)
        /\ entries = LoadAllEntries(files, time_filter_hours, now)

\* the worker of the second file finishes first; both files hold a record
\* with the same key and timestamp, and the copy of the first file survives
C25_Witness ==
    /\ pc = "loaded"
    /\ Len(finished) = 2
    /\ finished[1][1] = 2
    /\ Len(all_entries) = 2
    /\ HasDedupKey(all_entries[1])
    /\ HasDedupKey(all_entries[2])
    /\ DedupKey(all_entries[1]) = DedupKey(all_entries[2])
    /\ all_entries[1].timestamp = all_entries[2].timestamp
    /\ entries = <<all_entries[1]>>
    /\ entries[1].source_file = Some(Paths[1])

---------------------------------------------------------------------------
(* Properties of the legacy parser *)

\* the file of the state, at the other side of the size threshold
OtherSize(file) == [file EXCEPT !.large = ~file.large]

\* C24: for the same bytes the memory-mapped path and the buffered path give
\* the same result: the parse of the file equals the parse of a file with
\* the same content that takes the other path, in the records and in
\* failing or not; the records are those of the lines that decode, untagged.
C24_ParserEquivalence ==
    pc = "parsed" =>
        LET other == ParseJsonlFileMmap(OtherSize(files[1]))
            lines == files[1].lines
        IN  /\ (outcome = "Ok") = other.ok
            /\ entries = other.value
            /\ outcome = "Ok" =>
                   LET records == RecordsOfLines(lines, files[1].path, FALSE) IN
                   entries = [i \in DOMAIN records |->
                                 [records[i] EXCEPT !.source_file = None]]

\* a large file is mapped: of its lines, an object, malformed text and
\* another object, the two objects are returned
C24_Witness ==
    /\ pc = "parsed"
    /\ files[1].large
    /\ Len(files[1].lines) = 3
    /\ files[1].lines[2].text = "malformed"
    /\ outcome = "Ok"
    /\ Len(entries) = 2

\* a large file with a line that is not UTF-8 fails
C24_WitnessFails ==
    /\ pc = "parsed"
    /\ files[1].large
    /\ files[1].opens
    /\ \E i \in DOMAIN files[1].lines : files[1].lines[i].text = "invalid_utf8"
    /\ outcome = "Err"

---------------------------------------------------------------------------
(* Properties of the views *)

\* the view has returned, or has handed its records over to the totals
ViewLoaded == pc # "view"

\* no line of any file under the roots decodes to a record
NoRecordIn(roots) ==
    \A r \in DOMAIN roots : \A d \in DOMAIN roots[r].dirs :
        \A e \in DOMAIN roots[r].dirs[d].listing :
            \A l \in DOMAIN roots[r].dirs[d].listing[e].file.lines :
                ~Decodes(roots[r].dirs[d].listing[e].file.lines[l])

\* C15: whatever the state of the log data under the roots (no projects
\* directory, unreadable directories, files that cannot be opened or read,
\* undecodable lines), each view returns without error, and returns its empty
\* result (no records, no cost, no tokens) when the log data holds no record.
C15_ViewsNeverFail ==
    (ViewLoaded /\ claude_paths # <<>>) =>
        /\ outcome = "Ok"
        /\ NoRecordIn(claude_paths) =>
               /\ entries = <<>>
               /\ total_cost = 0
               /\ breakdown = NoBreakdown
               /\ pc = "done"

\* the transcript files of the directories that can be read
RECURSIVE ReadableTranscripts(_, _)
ReadableTranscripts(roots, cutoff_time) ==
    IF roots = <<>> THEN <<>>
    ELSE (IF Head(roots).projects = "listed"
          THEN DiscoverTranscriptFiles(Head(roots).dirs, cutoff_time)
          ELSE <<>>)
         \o ReadableTranscripts(Tail(roots), cutoff_time)

\* C16: log discovery skips a projects directory or project directory that
\* cannot be read and goes on with the others: load_all_entries returns Ok
\* with the records of the transcript files of the readable directories.
C16_UnreadableDirectoriesSkipped ==
    (ViewLoaded /\ view \in {"today", "block"} /\ claude_paths # <<>>) =>
        /\ outcome = "Ok"
        /\ files = ReadableTranscripts(
                       claude_paths, Some(now - 60 * Unwrap(time_filter_hours)))

\* C17: every record load_today_entries returns has a timestamp on the
\* current UTC calendar day: not before its start and not after its end.
C17_TodayEntriesOnly ==
    (ViewLoaded /\ view = "today" /\ outcome = "Ok") =>
        \A i \in DOMAIN entries :
            /\ entries[i].timestamp >= now - (now % Day)
            /\ entries[i].timestamp < now - (now % Day) + Day

\* C18: load_session_entries parses the one named file and deduplicates: no
\* two records it returns share the key (message_id, request_id).
C18_SessionEntriesDeduplicated ==
    (ViewLoaded /\ view = "session" /\ outcome = "Ok") =>
        /\ \A i \in DOMAIN entries :
               entries[i].source_file = Some(TranscriptName(SessionId))
        /\ \A i, j \in DOMAIN entries :
               (i < j /\ HasDedupKey(entries[i]) /\ HasDedupKey(entries[j]))
                   => DedupKey(entries[i]) # DedupKey(entries[j])

---------------------------------------------------------------------------
(* Properties of the cache *)

\* thread t returns from Cache::get in this step
GetReturns(t) ==
    /\ threads[t].op = "get"
    /\ threads[t].pc # "idle"
    /\ threads'[t].pc = "idle"

\* thread t is in Cache::get, holding an entry whose expiry time has passed
GetOnExpired(t) ==
    /\ threads[t].pc = "check"
    /\ now > Unwrap(data[threads[t].key]).expires_at

\* C19: Cache::get never returns a value whose expiry time has passed.  A
\* get that returns a value returns the one stored, of an entry that has not
\* expired, and leaves the map unchanged; a get on an expired entry returns
\* absent, and the entry is no longer in the map when it returns.
C19_GetNeverReturnsExpired ==
    /\ [][\A t \in Threads :
             GetReturns(t) =>
                 IF threads'[t].result # None
                 THEN /\ data[threads[t].key] # None
                      /\ now <= Unwrap(data[threads[t].key]).expires_at
                      /\ threads'[t].result = Some(Unwrap(data[threads[t].key]).value)
                      /\ data' = data
                 ELSE data'[threads[t].key] = None]_vars
    /\ \A t \in Threads :
           GetOnExpired(t) ~>
               (threads[t].pc = "idle" /\ threads[t].result = None)

\* C21: last write wins under every interleaving of the operations of
\* concurrent threads.  A get that returns a value returns the value of the
\* most recent insert of the key that completed, never an overwritten one;
\* the entry of a key always holds that value; and an entry that has not
\* expired leaves the map only by a remove or a clear_expired.
C21_LastWriteWins ==
    /\ [][\A t \in Threads :
             (GetReturns(t) /\ threads'[t].result # None) =>
                 threads'[t].result = completed[threads[t].key]]_vars
    /\ [](\A k \in CacheKeys :
             data[k] # None => completed[k] = Some(Unwrap(data[k]).value))
    /\ [][\A k \in CacheKeys :
             (data[k] # None /\ now <= Unwrap(data[k]).expires_at /\ data'[k] = None)
                 => \E t \in Threads :
                        /\ threads[t].pc = "write"
                        /\ threads'[t] # threads[t]
                        /\ \/ threads[t].op = "remove" /\ threads[t].key = k
                           \/ threads[t].op = "clear_expired"]_vars

\* a get holds the entry of a key while another thread waits to insert a
\* different value for the same key, after an insert of the key completed
C21_Witness ==
    \E t \in Threads, u \in Threads :
        /\ threads[t].pc = "check"
        /\ threads[u].pc = "write"
        /\ threads[u].op = "insert_with_ttl"
        /\ threads[u].key = threads[t].key
        /\ completed[threads[t].key] # None
        /\ threads[u].value # Unwrap(completed[threads[t].key])

\* C20: every Cache operation is total: a thread that is in get, insert,
\* insert_with_ttl, remove or clear_expired returns from it.
C20_OperationsTotal ==
    \A t \in Threads : (threads[t].pc # "idle") ~> (threads[t].pc = "idle")

---------------------------------------------------------------------------
(* Properties of the pricing calculator *)

Categories == {"input_tokens", "output_tokens",
               "cache_creation_input_tokens", "cache_read_input_tokens"}

HasUsage(e) == IsSome(e.message) /\ IsSome(Unwrap(e.message).usage)

\* the cumulative counter of category cat a record reports
Counter(e, cat) == UnwrapOr(Unwrap(Unwrap(e.message).usage)[cat], 0)

\* the counter of the latest record with usage before position i, else 0
Previous(s, i, cat) ==
    LET before == {j \in 1..(i - 1) : HasUsage(s[j])}
    IN  IF before = {} THEN 0
        ELSE Counter(s[CHOOSE j \in before : \A k \in before : k <= j], cat)

\* what the record at position i of the time-ordered session s contributes
Contribution(s, i, cat) ==
    IF HasUsage(s[i]) THEN Max(0, Counter(s[i], cat) - Previous(s, i, cat)) ELSE 0

RECURSIVE SumContributions(_, _, _)
SumContributions(s, n, cat) ==
    IF n = 0 THEN 0 ELSE SumContributions(s, n - 1, cat) + Contribution(s, n, cat)

\* source_session_key of a record
SourceSessionKey(e) ==
    IF IsSome(e.source_file) THEN Unwrap(e.source_file)
    ELSE IF IsSome(e.raw.sessionId) THEN Unwrap(e.raw.sessionId)
    ELSE "unknown"

SourceSessionKeys(es) == {SourceSessionKey(es[i]) : i \in DOMAIN es}

\* the records of one session, in input order
OfSession(es, key) == SelectSeq(es, LAMBDA e : SourceSessionKey(e) = key)

RECURSIVE SumOver(_, _)
SumOver(f, S) ==
    IF S = {} THEN 0
    ELSE LET x == CHOOSE x \in S : TRUE IN f[x] + SumOver(f, S \ {x})

\* the input counters of the records with usage, in stable timestamp order
InputCounters(es) ==
    LET s == SelectSeq(StableOrder(es), HasUsage)
    IN  [i \in DOMAIN s |-> Counter(s[i], "input_tokens")]

NonDecreasing(s) ==
    \A i, j \in DOMAIN s :
        (i < j /\ HasUsage(s[i]) /\ HasUsage(s[j])) =>
            \A cat \in Categories : Counter(s[i], cat) <= Counter(s[j], cat)

\* the position of the latest record with usage of s
LatestWithUsage(s) ==
    CHOOSE i \in DOMAIN s : HasUsage(s[i]) /\ \A j \in DOMAIN s : HasUsage(s[j]) => j <= i

\* the records of s from position k on
Suffix(s, k) == SubSeq(s, k, Len(s))

C3_SessionsIndependent ==
    pc = "tokens" =>
        LET keys == SourceSessionKeys(entries) IN
        /\ \A cat \in Categories :
               breakdown[cat] =
                   SumOver([k \in keys |->
                               CalculateTokenBreakdown(OfSession(entries, k))[cat]],
                           keys)
        /\ total_cost =
               SumOver([k \in keys |-> CalculateTotalCost(OfSession(entries, k))],
                       keys)

\* C3 witness: counter 1000 in one session followed by counter 500 in another
\* session gives an input total of 1500.
C3_Witness ==
    /\ pc = "tokens"
    /\ Len(entries) = 2
    /\ SourceSessionKey(entries[1]) # SourceSessionKey(entries[2])
    /\ entries[1].timestamp < entries[2].timestamp
    /\ InputCounters(entries) = <<1000, 500>>
    /\ breakdown.input_tokens = 1500
    /\ total_cost > 0

\* the sum of the declared costs of the records that have one
DeclaredSum(es) ==
    SumOver([i \in DOMAIN es |-> UnwrapOr(es[i].cost_usd, 0)], DOMAIN es)

\* C4: calculate_total_cost is the sum of the declared costs of the records
\* that have one, plus the cost of the other records priced from their token
\* deltas and model rates.
C4_DeclaredCostUsed ==
    pc \in {"cost", "tokens"} =>
        total_cost =
            DeclaredSum(entries)
            + CalculateTotalCost(SelectSeq(entries, LAMBDA e : e.cost_usd = None))

\* the sequence s before the record at position p was inserted
RemoveAt(s, p) == SubSeq(s, 1, p - 1) \o SubSeq(s, p + 1, Len(s))

\* C11: a record without usage (no message at all, or a message without
\* usage), inserted at any position of the stream with any timestamp and
\* session, changes none of calculate_total_cost, calculate_token_breakdown
\* and calculate_weighted_tokens: the results are those of the stream
\* without that record.
C11_UsagelessRecordIsNeutral ==
    \A p \in DOMAIN entries :
        ~HasUsage(entries[p]) =>
            LET before == RemoveAt(entries, p) IN
            /\ pc \in {"cost", "tokens"} => total_cost = CalculateTotalCost(before)
            /\ pc = "tokens" => breakdown = CalculateTokenBreakdown(before)
            /\ pc = "weighted" => weighted_tokens = CalculateWeightedTokens(before)

\* C11 witness: a session with the input counters 1000 and 1500 and a record
\* without usage between the two; the totals count 1500 input tokens.
C11_Witness ==
    /\ pc = "weighted"
    /\ Len(entries) = 3
    /\ Cardinality(SourceSessionKeys(entries)) = 1
    /\ HasUsage(entries[1]) /\ ~HasUsage(entries[2]) /\ HasUsage(entries[3])
    /\ entries[1].timestamp < entries[3].timestamp
    /\ InputCounters(entries) = <<1000, 1500>>
    /\ breakdown.input_tokens = 1500
    /\ total_cost > 0
    /\ weighted_tokens = 5 * (1500 + 750 + 200 + 10)

\* the model identifiers that contain "opus" in some spelling of the letters
OpusFamily == {"claude-3-opus", "Claude-3-OPUS"}

\* the weight of a record: 5 for an opus model, 1 otherwise and without model
WeightOf(e) ==
    IF IsSome(Unwrap(e.message).model)
       /\ Unwrap(Unwrap(e.message).model) \in OpusFamily
    THEN 5 ELSE 1

\* weight times delta token total over the first n records of the
\* time-ordered session s
RECURSIVE WeightedSum(_, _)
WeightedSum(s, n) ==
    IF n = 0 THEN 0
    ELSE WeightedSum(s, n - 1)
         + (IF HasUsage(s[n])
            THEN WeightOf(s[n])
                 * SumOver([cat \in Categories |-> Contribution(s, n, cat)], Categories)
            ELSE 0)

RateOf(pricing, cat) ==
    CASE cat = "input_tokens" -> pricing.input
      [] cat = "output_tokens" -> pricing.output
      [] cat = "cache_creation_input_tokens" -> pricing.cache_write_5m
      [] cat = "cache_read_input_tokens" -> pricing.cache_read

HasModel(e) == IsSome(Unwrap(e.message).model)

\* the cost of the record at position i of the time-ordered session s: its
\* token deltas at the rates of its model, nothing without usage or model
PricedContribution(s, i) ==
    IF HasUsage(s[i]) /\ HasModel(s[i])
    THEN LET pricing == GetModelPricing(Unwrap(Unwrap(s[i].message).model)) IN
         SumOver([cat \in Categories |-> Contribution(s, i, cat) * RateOf(pricing, cat)],
                 Categories)
    ELSE 0

\* C22: a record with usage but without model id adds nothing to
\* calculate_total_cost, which is the sum of the priced deltas of the records
\* that have a model id (the other records are still priced); its token
\* deltas are counted in calculate_token_breakdown like those of any record
\* with usage.
C22_NoModelNoCost ==
    LET s == StableOrder(entries) IN
    /\ pc \in {"cost", "tokens"} =>
           total_cost = SumOver([i \in DOMAIN s |-> PricedContribution(s, i)], DOMAIN s)
    /\ pc = "tokens" =>
           \A cat \in Categories :
               breakdown[cat] = SumContributions(s, Len(s), cat)

\* a record without model id with the counters 1000/500, then a record of a
\* haiku model with the counters 1500/750/200/10: the tokens of both are
\* counted, and the cost is the one of the deltas of the second record
C22_Witness ==
    /\ pc = "tokens"
    /\ Len(entries) = 2
    /\ ~HasModel(entries[1])
    /\ Unwrap(entries[2].message).model = Some("claude-3-haiku")
    /\ breakdown = Usage(1500, 750, 200, 10)
    /\ total_cost = 500 * 100 + 250 * 500 + 200 * 125 + 10 * 10

\* the model ids of a family, by the letters they contain in any case
HaikuFamily == {"claude-3-haiku", "haiku", "my_haiku"}

\* the rate of the family of a model id
FamilyRate(id) ==
    IF id \in OpusFamily THEN PricingTable["claude-3-opus"]
    ELSE IF id \in HaikuFamily THEN PricingTable["claude-3-5-haiku"]
    ELSE PricingTable["claude-3-5-sonnet"]

\* the keys of the table that contain the normalized model id (no key is
\* contained in a normalized id: every key has a "-")
KeysContaining(id) ==
    CASE id = "haiku" -> {"claude-3-5-haiku", "claude-3.5-haiku-20241022",
                          "claude-3-haiku"}
      [] id = "" -> DOMAIN PricingTable
      [] OTHER -> {}

\* the model ids calculate_total_cost has resolved: those of the records
\* with usage and a model id
ResolvedIds ==
    IF pc = "loaded" THEN {}
    ELSE {Unwrap(Unwrap(entries[i].message).model) :
             i \in {j \in DOMAIN entries : HasUsage(entries[j]) /\ HasModel(entries[j])}}

\* C23 as stated: get_model_pricing returns the entry of an id that is a key
\* of the table, and for every other id the rate of its family: opus for
\* ids containing "opus", haiku for ids containing "haiku", else sonnet.
C23_ExactThenFamily ==
    \A id \in ResolvedIds :
        GetModelPricing(id) =
            IF id \in DOMAIN PricingTable THEN PricingTable[id] ELSE FamilyRate(id)

\* C23, with the fuzzy step: get_model_pricing returns a rate of the table
\* for every id: the entry of an id that is a key; else, when keys of the
\* table contain the normalized id, the entry of one of these keys; else
\* the rate of the family of the id.
C23_ExactThenFuzzyThenFamily ==
    \A id \in ResolvedIds :
        LET pricing == GetModelPricing(id) IN
        /\ \E k \in DOMAIN PricingTable : pricing = PricingTable[k]
        /\ id \in DOMAIN PricingTable => pricing = PricingTable[id]
        /\ (id \notin DOMAIN PricingTable /\ KeysContaining(id) # {}) =>
               \E k \in KeysContaining(id) : pricing = PricingTable[k]
        /\ (id \notin DOMAIN PricingTable /\ KeysContaining(id) = {}) =>
               pricing = FamilyRate(id)

\* records of the models "haiku" and "Claude-3-OPUS" are priced on a table
\* that visits "claude-3-haiku" before the other haiku keys: the first at
\* the rates of that key, the second at the opus rates
C23_Witness ==
    /\ pc = "cost"
    /\ Len(entries) = 2
    /\ Unwrap(entries[1].message).model = Some("haiku")
    /\ Unwrap(entries[2].message).model = Some("Claude-3-OPUS")
    /\ Unwrap(entries[1].message).usage = Some(Usage(Some(1000), Some(500), None, None))
    /\ Unwrap(entries[2].message).usage
           = Some(Usage(Some(1500), Some(750), Some(200), Some(10)))
    /\ GetModelPricing("haiku") = PricingTable["claude-3-haiku"]
    /\ total_cost = 1000 * 100 + 500 * 500
                    + 500 * 6000 + 250 * 30000 + 200 * 7500 + 10 * 600

\* C26: get_model_pricing returns the same rates for a model id whatever
\* the order in which the keys of the table are visited.
C26_ResolutionDeterministic ==
    \A id \in ResolvedIds :
        \A order \in TableOrders :
            PricingTable[ResolveKey(order, id)] = GetModelPricing(id)

---------------------------------------------------------------------------
(* Properties of the aggregation of a duplicated file *)

\* the records without the tag of the file they were read from
WithoutSource(es) == [i \in DOMAIN es |-> [es[i] EXCEPT !.source_file = None]]

\* the result of aggregating the file alone, under its own path
Alone ==
    LoadAllEntries(<<File(Paths[1], TRUE, files[1].lines)>>,
                   time_filter_hours, now)

\* the aggregation of the file and its copy gives the records and the totals
\* of the aggregation of the file alone
SameAsAlone ==
    /\ WithoutSource(entries) = WithoutSource(Alone)
    /\ total_cost = CalculateTotalCost(Alone)
    /\ breakdown = CalculateTokenBreakdown(Alone)

\* C8 as stated: aggregating any file together with a byte-identical copy
\* under a second path yields the records and the token and cost totals of
\* aggregating the file alone.
C8_CopyIdempotent == pc = "tokens" => SameAsAlone

\* C8 amended: the same, for a file whose records all have a message id and
\* a request id (the records are equal up to the path they are tagged with).
C8_CopyIdempotentKeyed ==
    (pc = "tokens" /\ \A i \in DOMAIN all_entries : HasDedupKey(all_entries[i]))
        => SameAsAlone

\* C8 witness: a file of two keyed records with usage, its copy discovered
\* first; four records are merged and two survive.
C8_Witness ==
    /\ pc = "tokens"
    /\ \A i \in DOMAIN all_entries : HasDedupKey(all_entries[i])
    /\ files[1].path = Paths[2]
    /\ Len(all_entries) = 4
    /\ Len(entries) = 2
    /\ breakdown.input_tokens = 1500

---------------------------------------------------------------------------
(* Properties of the session block identifier *)

Timestamps(es) == [i \in DOMAIN es |-> es[i].timestamp]

RECURSIVE Concat(_)
Concat(bs) == IF bs = <<>> THEN <<>> ELSE Head(bs) \o Concat(Tail(bs))

\* C5: the step that consumes record r: with no open block it opens one with
\* start = floor_to_hour(r.timestamp); else it closes the open block and
\* opens a new one exactly when r.timestamp - start > 5h or r.timestamp -
\* last.timestamp > 5h (strictly), and appends r otherwise.
C5_Transition ==
    LET r    == entries[idx]
        last == current_block_entries[Len(current_block_entries)]
    IN  idx' = idx + 1 =>
            IF current_block_start = None
            THEN /\ current_block_start' = Some(r.timestamp - (r.timestamp % 60))
                 /\ current_block_entries' = <<r>>
                 /\ blocks' = blocks
            ELSE IF \/ r.timestamp - Unwrap(current_block_start) > 300
                    \/ r.timestamp - last.timestamp > 300
                 THEN /\ blocks' = Append(blocks, current_block_entries)
                      /\ current_block_start' = Some(r.timestamp - (r.timestamp % 60))
                      /\ current_block_entries' = <<r>>
                 ELSE /\ current_block_entries' = Append(current_block_entries, r)
                      /\ current_block_start' = current_block_start
                      /\ blocks' = blocks

C5_TransitionRule == [][C5_Transition]_vars

\* C5 witness: of the records at 0:00, 5:00 and 5:01 the one exactly 5h after
\* the start stays in the first block and the third one starts the next.
C5_Witness ==
    /\ pc = "identified"
    /\ Timestamps(entries) = <<0, 300, 301>>
    /\ Len(blocks) = 2
    /\ Timestamps(blocks[1]) = <<0, 300>>
    /\ Timestamps(blocks[2]) = <<301>>

\* C6: the emitted blocks are non-empty, their concatenation is the input
\* sequence, and in every block each record lies at most 5h after the
\* hour-floored timestamp of the first record and at most 5h after its
\* predecessor.
C6_BlocksPartition ==
    pc \in {"identified", "active"} =>
        /\ \A b \in DOMAIN blocks : blocks[b] # <<>>
        /\ Concat(blocks) = entries
        /\ \A b \in DOMAIN blocks : \A i \in DOMAIN blocks[b] :
               /\ blocks[b][i].timestamp
                      - (blocks[b][1].timestamp - (blocks[b][1].timestamp % 60)) <= 300
               /\ i > 1 => blocks[b][i].timestamp - blocks[b][i - 1].timestamp <= 300

\* C6 witness: three records end up in two blocks, the second one the block
\* that was open at the end of the stream.
C6_Witness ==
    /\ pc = "identified"
    /\ Len(entries) = 3
    /\ Len(blocks) = 2
    /\ Len(blocks[2]) = 2
    /\ blocks[2][1].timestamp % 60 = 59

\* the active predicate of a block at the time clock
ActiveAt(block, clock) ==
    /\ clock - block[Len(block)].timestamp < 300
    /\ clock < (block[1].timestamp - (block[1].timestamp % 60)) + 300

\* C7: find_active_block returns the most recent block that satisfies
\* now - last_entry.timestamp < 5h and now < floor_to_hour(first_entry
\* .timestamp) + 5h, and no block when none satisfies both.
C7_ActiveBlock ==
    pc = "active" =>
        LET candidates == {b \in DOMAIN blocks : ActiveAt(blocks[b], now)} IN
        IF candidates = {}
        THEN active = None
        ELSE active = Some(blocks[CHOOSE b \in candidates : \A c \in candidates : c <= b])

\* C7 witness: ten minutes after the last record of a block that started
\* 4h10m before, the block is the active one.
C7_Witness ==
    /\ pc = "active"
    /\ IsSome(active)
    /\ Len(Unwrap(active)) >= 2
    /\ now - Unwrap(active)[Len(Unwrap(active))].timestamp = 10
    /\ now - Unwrap(active)[1].timestamp = 250

\* C7 witness of the other case: six hours after the last record there is
\* no active block.
C7_WitnessInactive ==
    /\ pc = "active"
    /\ blocks # <<>>
    /\ now - entries[Len(entries)].timestamp = 360
    /\ active = None

\* C28: for the blocks of a timestamp-sorted stream and any reading of the
\* clock, find_active_block returns no block or the last block: whenever an
\* earlier block satisfies the active predicate, the last block does too.
C28_ActiveIsLastBlock ==
    pc = "active" =>
        /\ active = None \/ active = Some(blocks[Len(blocks)])
        /\ \A b \in DOMAIN blocks :
               ActiveAt(blocks[b], now) => ActiveAt(blocks[Len(blocks)], now)

\* C28 witness: the clock reads a time at which an earlier block is still
\* active (the later records are dated after it), and the block returned is
\* the last one.
C28_Witness ==
    /\ pc = "active"
    /\ Len(blocks) >= 2
    /\ ActiveAt(blocks[1], now)
    /\ active = Some(blocks[Len(blocks)])
    /\ blocks[Len(blocks)] # blocks[1]

\* a walk over the records that cuts on the span test only
RECURSIVE SpanOnlyWalk(_, _, _, _)
SpanOnlyWalk(es, start, current, done) ==
    IF es = <<>>
    THEN IF current # <<>> THEN Append(done, current) ELSE done
    ELSE LET r == Head(es) IN
         IF start = None
         THEN SpanOnlyWalk(Tail(es), Some(r.timestamp - (r.timestamp % 60)),
                           <<r>>, done)
         ELSE IF r.timestamp - Unwrap(start) > 300
              THEN SpanOnlyWalk(Tail(es), Some(r.timestamp - (r.timestamp % 60)),
                                <<r>>, Append(done, current))
              ELSE SpanOnlyWalk(Tail(es), start, Append(current, r), done)

\* C29: on a timestamp-sorted stream the gap test is implied by the span
\* test: a step at which r.timestamp - last.timestamp > 5h also has
\* r.timestamp - start > 5h, and identify_session_blocks produces exactly
\* the blocks of a walk that tests only r.timestamp - start > 5h.
C29_GapImpliedBySpan ==
    /\ [][(idx' = idx + 1 /\ IsSome(current_block_start)
             /\ current_block_entries # <<>>) =>
              (entries[idx].timestamp
                   - current_block_entries[Len(current_block_entries)].timestamp > 300
                 => entries[idx].timestamp - Unwrap(current_block_start) > 300)]_vars
    /\ [](pc \in {"identified", "active"} =>
              blocks = SpanOnlyWalk(entries, None, <<>>, <<>>))

\* C29 witness: a record more than 5h after its predecessor, which is not
\* the first record of its block, started the second block.
C29_Witness ==
    /\ pc = "identified"
    /\ Len(entries) = 3
    /\ Len(blocks) = 2
    /\ Len(blocks[1]) = 2
    /\ blocks[1][2].timestamp > blocks[1][1].timestamp
    /\ blocks[2][1].timestamp - blocks[1][2].timestamp > 300

=============================================================================
